---- MODULE Spec2Model ----
(***************************************************************************)
(* Watch-status propagation and cached reads of keep-watching-server.      *)
(*                                                                         *)
(* The store is three association tables (show_watch_status,               *)
(* season_watch_status, episode_watch_status), each a partial function     *)
(* from (profile_id, content_id) to a status, over a fixed hierarchy of    *)
(* show, season and episode rows.  The cache is a map from string keys to  *)
(* the values the read paths computed.  Request handlers are actions; the  *)
(* cascading updates, which run inside a database transaction, are split   *)
(* at their statements so that a failure between two statements is a       *)
(* state of the model.                                                     *)
(***************************************************************************)
EXTENDS Integers, Sequences, FiniteSets, TLC

\* ------------------------------------------------------------- bounds

\* Number of calls of the Season and Episode model methods in one behaviour.
MaxOps == 2

\* Number of ShowService requests in one behaviour.
MaxRequests == 3

\* Number of updateShowWatchStatus requests made while getOrSet calls
\* overlap.
MaxWrites == 1

\* Number of favorite requests (add, remove, saveFavorite) in one behaviour.
MaxFavorites == 2

\* ----------------------------------------------------------- universe

Profiles == {1, 10}
Shows    == {1, 2}
Seasons  == {1, 2, 3}
Episodes == {1, 2, 3}

\* WatchStatus ('WATCHED', 'WATCHING', or 'NOT_WATCHED').
Status == {"NOT_WATCHED", "WATCHING", "WATCHED"}

\* The status column's default for a row inserted without a status.
DefaultStatus == "NOT_WATCHED"

\* seasons.show_id and episodes.season_id of the rows the store holds:
\* show 1 has season 1 (episodes 1, 2) and season 2 (no episode yet),
\* show 2 has season 3 (episode 3).
InitSeasonRows  == (1 :> 1) @@ (2 :> 1) @@ (3 :> 2)
InitEpisodeRows == (1 :> 1) @@ (2 :> 1) @@ (3 :> 3)

\* The shows each profile has in its favorites when the behaviour starts.
\* Profile 1 has both shows; profile 10 has show 1 only.
InitFavorites == {f \in [Profiles -> SUBSET Shows] : f[1] = {1, 2} /\ f[10] = {1}}

VARIABLES
    seasonRows,   \* season id -> show id            (table seasons)
    episodeRows,  \* episode id -> season id         (table episodes)
    showWS,       \* <<profile, show>> -> status     (table show_watch_status)
    seasonWS,     \* <<profile, season>> -> status   (table season_watch_status)
    episodeWS,    \* <<profile, episode>> -> status  (table episode_watch_status)
    cache,        \* key -> cached value             (CacheService)
    tx,           \* the cascading update in flight, its connection and writes
    last,         \* the handler that completed last, and what it returned
    nops,         \* calls and requests issued so far
    upd,          \* the successful updateShowWatchStatus no store write has followed
    showRows,     \* ids of the rows of table shows
    seasonNumber, \* season id -> season_number       (table seasons)
    loader,       \* the fetchSeasonsAndEpisodes run and the request that started it
    sessions,     \* account ids of the connected sockets (socket.data.accountId)
    emitted,      \* the 'updateShowFavorite' messages emitted, in order
    pending,      \* episode_watch_status inserts issued and not awaited, still in flight
    calls,        \* the getOrSet calls in flight or returned, by caller
    jobs,         \* the status requests and new-content updates in flight, by number
    movieRows,    \* ids of the rows of table movies
    movieWS,      \* <<profile, movie>> -> status     (table movie_watch_status)
    tokenOf       \* socket.data.accountId of a connected socket -> account of its token

hier  == <<seasonRows, episodeRows>>
store == <<showWS, seasonWS, episodeWS>>
\* What the status and read handlers never touch.
\* What only the interleaved status requests and the movie handlers touch.
more  == <<jobs, movieRows, movieWS, tokenOf>>
bg    == <<showRows, seasonNumber, loader, sessions, emitted, pending, calls, more>>
vars  == <<seasonRows, episodeRows, showWS, seasonWS, episodeWS, cache, tx, last, nops, upd,
           showRows, seasonNumber, loader, sessions, emitted, pending, calls,
           jobs, movieRows, movieWS, tokenOf>>

\* ------------------------------------------------------------ helpers

SeasonsOfShow(sh)  == {s \in DOMAIN seasonRows : seasonRows[s] = sh}
EpisodesOfSeason(s) == {e \in DOMAIN episodeRows : episodeRows[e] = s}
EpisodesOfShow(sh) == {e \in DOMAIN episodeRows : episodeRows[e] \in SeasonsOfShow(sh)}

\* A slip of the statement: INSERT ... ON DUPLICATE KEY UPDATE, which also
\* creates the rows that are missing.
SetStatusUpsert(tbl, keys, st) ==
    [k \in DOMAIN tbl \cup keys |-> IF k \in keys THEN st ELSE tbl[k]]

\* UPDATE t SET status = st WHERE key IN keys: the table after the statement.
SetStatus(tbl, keys, st) ==
    [k \in DOMAIN tbl |-> IF k \in keys THEN st ELSE tbl[k]]

\* result.affectedRows of that UPDATE: the rows the WHERE clause matched.
AffectedRows(tbl, keys) == Cardinality(keys \cap DOMAIN tbl)

StatusOf(tbl, k) == IF k \in DOMAIN tbl THEN tbl[k] ELSE "NONE"

NoVal == <<>>

Done(op, p, id, st, flag, res, val) ==
    [op |-> op, p |-> p, id |-> id, st |-> st, flag |-> flag, res |-> res, val |-> val]

\* How a transactional handler left its transaction ("commit", "rollback",
\* or "none" when it called neither) and the statement it had reached.
TxEnd(end, at) == [end |-> end, at |-> at]

NoUpd ==
    [p |-> 0, show |-> 0, st |-> "NONE", old |-> "NONE", listed |-> FALSE]

IdleTx ==
    [pc |-> "idle", kind |-> "none", p |-> 0, id |-> 0, st |-> "NONE",
     shRows |-> {}, sRows |-> {}, eRows |-> {}]

\* No fetchSeasonsAndEpisodes run has been started.
IdleLoader ==
    [pc |-> "idle", p |-> 0, show |-> 0, resp |-> <<>>, queue |-> <<>>, season |-> 0,
     log |-> <<>>,
     eps |-> 0, ep |-> 0, view |-> NoVal, returned |-> FALSE, runs |-> 0]

\* A caller that has not called getOrSet.
NoCall == [pc |-> "idle", p |-> 0, hit |-> FALSE, invoked |-> FALSE, val |-> NoVal,
           epoch |-> 0, clean |-> FALSE]

\* The callers of getOrSet that may overlap.
MaxCallers == 2
Callers == 1..MaxCallers

\* A request or update that is not running.
NoJob == [pc |-> "idle", p |-> 0, id |-> 0, season |-> 0, st |-> "NONE", seen |-> "NONE",
          queue |-> <<>>]

\* The status requests and new-content updates that may overlap.
MaxJobs == 2
Jobs == 1..MaxJobs

\* The movies of the store and the movie each profile has in its favorites
\* when the behaviour starts.
Movies == {1, 2}
InitMovieRows == {1}
InitMovieWS == (<<1, 1>> :> DefaultStatus)

\* season_number of the season rows the store holds when the behaviour starts.
InitSeasonNumber == (1 :> 1) @@ (2 :> 2) @@ (3 :> 1)

\* Nothing runs in the background, nobody is connected.
InitBackground ==
    /\ loader = IdleLoader
    /\ sessions = {}
    /\ emitted = <<>>
    /\ pending = {}
    /\ calls = [c \in Callers |-> NoCall]
    /\ jobs = [j \in Jobs |-> NoJob]
    /\ tokenOf = <<>>
    /\ movieRows = InitMovieRows
    /\ movieWS = InitMovieWS

\* ---------------------------------------------------------------- Init

Init ==
    /\ seasonRows = InitSeasonRows
    /\ episodeRows = InitEpisodeRows
    /\ \E fav \in InitFavorites :
        /\ showWS = [k \in {k \in Profiles \X Shows : k[2] \in fav[k[1]]} |-> DefaultStatus]
        /\ seasonWS = [k \in {k \in Profiles \X Seasons :
                                InitSeasonRows[k[2]] \in fav[k[1]]} |-> DefaultStatus]
        /\ episodeWS = [k \in {k \in Profiles \X Episodes :
                                InitSeasonRows[InitEpisodeRows[k[2]]] \in fav[k[1]]} |-> DefaultStatus]
    /\ cache = <<>>
    /\ tx = IdleTx
    /\ last = Done("init", 0, 0, "NONE", FALSE, "void", NoVal)
    /\ nops = 0
    /\ upd = NoUpd
    /\ showRows = Shows
    /\ seasonNumber = InitSeasonNumber
    /\ InitBackground

\* ------------------------------------------------- Episode (models/episode)

\* Episode.updateWatchStatus: one UPDATE, false when it matched no row.
EpisodeUpdateWatchStatus(p, e, st) ==
    /\ nops < MaxOps
    /\ tx.pc = "idle"
    /\ episodeWS' = SetStatus(episodeWS, {<<p, e>>}, st)
    /\ last' = Done("Episode.updateWatchStatus", p, e, st, FALSE,
                    IF AffectedRows(episodeWS, {<<p, e>>}) = 0 THEN "false" ELSE "true", NoVal)
    /\ nops' = nops + 1
    /\ upd' = NoUpd
    /\ UNCHANGED <<bg, hier, showWS, seasonWS, cache, tx>>

\* -------------------------------------------------- Season (models/season)

\* Season.updateWatchStatus: one UPDATE, true when at least one row matched.
SeasonUpdateWatchStatus(p, s, st) ==
    /\ nops < MaxOps
    /\ tx.pc = "idle"
    /\ seasonWS' = SetStatus(seasonWS, {<<p, s>>}, st)
    /\ last' = Done("Season.updateWatchStatus", p, s, st, FALSE,
                    IF AffectedRows(seasonWS, {<<p, s>>}) > 0 THEN "true" ELSE "false", NoVal)
    /\ nops' = nops + 1
    /\ upd' = NoUpd
    /\ UNCHANGED <<bg, hier, showWS, episodeWS, cache, tx>>

\* Collation order of the status strings, for MAX(ews.status).
StatusRank(st) ==
    CASE st = "NOT_WATCHED" -> 1
      [] st = "WATCHED"     -> 2
      [] st = "WATCHING"    -> 3

MaxStatus(S) == CHOOSE st \in S : \A o \in S : StatusRank(o) <= StatusRank(st)

\* The statuses the join episodes e JOIN episode_watch_status ews selects
\* for WHERE e.season_id = s AND ews.profile_id = p.
JoinedStatuses(p, s) ==
    {episodeWS[<<p, e>>] : e \in {e \in EpisodesOfSeason(s) : <<p, e>> \in DOMAIN episodeWS}}

\* A plausible slip of the aggregate: WATCHED as soon as any episode is.
SeasonStatusQueryAnyWatched(p, s) ==
    << [season_status |->
          IF Cardinality(JoinedStatuses(p, s)) = 1 THEN MaxStatus(JoinedStatuses(p, s))
          ELSE IF "WATCHED" \in JoinedStatuses(p, s) THEN "WATCHED"
          ELSE "WATCHING"] >>

\* SELECT CASE WHEN COUNT(DISTINCT ews.status) = 1 THEN MAX(ews.status)
\* ELSE 'WATCHING' END AS season_status ...: an aggregate without GROUP BY,
\* so the result set is one row, also when the join selects nothing.
SeasonStatusQuery(p, s) ==
    << [season_status |->
          IF Cardinality(JoinedStatuses(p, s)) = 1 THEN MaxStatus(JoinedStatuses(p, s))
          ELSE "WATCHING"] >>

\* Season.updateWatchStatusByEpisode: the aggregate, then the UPDATE of the
\* season row unless the result set is empty.
SeasonUpdateWatchStatusByEpisode(p, s) ==
    /\ nops < MaxOps
    /\ tx.pc = "idle"
    /\ LET statusResult == SeasonStatusQuery(p, s) IN
         IF Len(statusResult) = 0
         THEN seasonWS' = seasonWS
         ELSE seasonWS' = SetStatus(seasonWS, {<<p, s>>}, statusResult[1].season_status)
    /\ last' = Done("Season.updateWatchStatusByEpisode", p, s, "NONE", FALSE, "void", NoVal)
    /\ nops' = nops + 1
    /\ upd' = NoUpd
    /\ UNCHANGED <<bg, hier, showWS, episodeWS, cache, tx>>

\* Season.updateAllWatchStatuses, statement by statement.
\* getConnection and beginTransaction.
SeasonUpdateAllBegin(p, s, st) ==
    /\ nops < MaxOps
    /\ tx.pc = "idle"
    /\ tx' = [IdleTx EXCEPT !.pc = "season", !.kind = "season", !.p = p, !.id = s, !.st = st]
    /\ nops' = nops + 1
    /\ UNCHANGED <<bg, hier, store, cache, last, upd>>

\* UPDATE season_watch_status ... on the connection; return false when it
\* matched no row (the connection is released by the finally block).
SeasonUpdateAllSeasonStmt ==
    /\ tx.kind = "season" /\ tx.pc = "season"
    /\ IF AffectedRows(seasonWS, {<<tx.p, tx.id>>}) = 0
       THEN /\ tx' = IdleTx
            /\ last' = Done("Season.updateAllWatchStatuses", tx.p, tx.id, tx.st, TRUE, "false",
                            TxEnd("none", tx.pc))
       ELSE /\ tx' = [tx EXCEPT !.pc = "episodes", !.sRows = {<<tx.p, tx.id>>}]
            /\ last' = last
    /\ UNCHANGED <<bg, hier, store, cache, nops, upd>>

\* UPDATE episode_watch_status ... WHERE episode_id IN (SELECT id from
\* episodes where season_id = ?) on the connection.
SeasonUpdateAllEpisodeStmt ==
    /\ tx.kind = "season" /\ tx.pc = "episodes"
    /\ tx' = [tx EXCEPT !.pc = "commit",
                        !.eRows = {k \in DOMAIN episodeWS :
                                     k[1] = tx.p /\ k[2] \in EpisodesOfSeason(tx.id)}]
    /\ UNCHANGED <<bg, hier, store, cache, last, nops, upd>>

\* connection.commit(): the writes become visible; the result is
\* episodeResult.affectedRows > 0.
SeasonUpdateAllCommit ==
    /\ tx.kind = "season" /\ tx.pc = "commit"
    /\ seasonWS' = SetStatus(seasonWS, tx.sRows, tx.st)
    /\ episodeWS' = SetStatus(episodeWS, tx.eRows, tx.st)
    /\ last' = Done("Season.updateAllWatchStatuses", tx.p, tx.id, tx.st, TRUE,
                    IF Cardinality(tx.eRows) > 0 THEN "true" ELSE "false", TxEnd("commit", tx.pc))
    /\ tx' = IdleTx
    /\ upd' = NoUpd
    /\ UNCHANGED <<bg, hier, showWS, cache, nops>>

\* A slip of the catch block: the writes made so far are kept (no rollback).
SeasonUpdateAllCatchNoRollback ==
    /\ tx.kind = "season" /\ tx.pc \in {"season", "episodes", "commit"}
    /\ seasonWS' = SetStatus(seasonWS, tx.sRows, tx.st)
    /\ episodeWS' = SetStatus(episodeWS, tx.eRows, tx.st)
    /\ last' = Done("Season.updateAllWatchStatuses", tx.p, tx.id, tx.st, TRUE, "DatabaseError",
                    TxEnd("none", tx.pc))
    /\ tx' = IdleTx
    /\ upd' = NoUpd
    /\ UNCHANGED <<bg, hier, showWS, cache, nops>>

\* A statement or the commit fails: catch, connection.rollback(), throw
\* DatabaseError, release.
SeasonUpdateAllCatch ==
    /\ tx.kind = "season" /\ tx.pc \in {"season", "episodes", "commit"}
    /\ last' = Done("Season.updateAllWatchStatuses", tx.p, tx.id, tx.st, TRUE, "DatabaseError",
                    TxEnd("rollback", tx.pc))
    /\ tx' = IdleTx
    /\ UNCHANGED <<bg, hier, store, cache, nops, upd>>

NextSeason ==
    \/ \E p \in Profiles, e \in Episodes, st \in Status : EpisodeUpdateWatchStatus(p, e, st)
    \/ \E p \in Profiles, s \in Seasons, st \in Status : SeasonUpdateWatchStatus(p, s, st)
    \/ \E p \in Profiles, s \in Seasons : SeasonUpdateWatchStatusByEpisode(p, s)
    \/ \E p \in Profiles, s \in Seasons, st \in Status : SeasonUpdateAllBegin(p, s, st)
    \/ SeasonUpdateAllSeasonStmt
    \/ SeasonUpdateAllEpisodeStmt
    \/ SeasonUpdateAllCommit
    \/ SeasonUpdateAllCatch

SpecSeason == Init /\ [][NextSeason]_vars

\* ------------------------------------------------ cache keys (CACHE_KEYS)

\* A key is the sequence of its pieces: the literal parts of the template
\* string and, one by one, the decimal digits of each interpolated id.
DigitChar(d) ==
    CASE d = 0 -> "0" [] d = 1 -> "1" [] d = 2 -> "2" [] d = 3 -> "3" [] d = 4 -> "4"
      [] d = 5 -> "5" [] d = 6 -> "6" [] d = 7 -> "7" [] d = 8 -> "8" [] d = 9 -> "9"

RECURSIVE Digits(_)
Digits(n) == IF n < 10 THEN <<DigitChar(n)>> ELSE Digits(n \div 10) \o <<DigitChar(n % 10)>>

\* `profile_${profileId}`
ProfilePattern(p) == <<"profile_">> \o Digits(p)

PROFILE_SHOWS(p)              == <<"profile_">> \o Digits(p) \o <<"_", "shows">>
PROFILE_SHOW(p, sh)           == <<"profile_">> \o Digits(p) \o <<"_", "show_">> \o Digits(sh)
PROFILE_EPISODES(p)           == <<"profile_">> \o Digits(p) \o <<"_", "episodes">>
PROFILE_UNWATCHED_EPISODES(p) == <<"profile_">> \o Digits(p) \o <<"_", "unwatched_episodes">>
\* `profile_${profileId}_show_details_${showId}`
PROFILE_SHOW_DETAILS(p, sh)   == <<"profile_">> \o Digits(p) \o <<"_", "show_details_">> \o Digits(sh)

\* Every key the service builds for profile p.
KeysOfProfile(p) ==
    {PROFILE_SHOWS(p), PROFILE_EPISODES(p), PROFILE_UNWATCHED_EPISODES(p)}
        \cup {PROFILE_SHOW(p, sh) : sh \in Shows}
        \cup {PROFILE_SHOW_DETAILS(p, sh) : sh \in Shows}

\* ------------------------------------------------------- CacheService

StartsWith(key, prefix) ==
    /\ Len(prefix) <= Len(key)
    /\ \A i \in 1..Len(prefix) : key[i] = prefix[i]

CacheSet(c, key, val) == [k \in DOMAIN c \cup {key} |-> IF k = key THEN val ELSE c[k]]

\* invalidate(key)
Invalidate(c, key) == [k \in DOMAIN c \ {key} |-> c[k]]

\* invalidatePattern(prefix): removes every key that starts with prefix.
InvalidatePattern(c, prefix) ==
    [k \in {k \in DOMAIN c : ~StartsWith(k, prefix)} |-> c[k]]

\* ------------------------------------------------------- Show (models/show)

\* Show.getAllShowsForProfile: the profile's favorites with their status.
ShowsView(p) ==
    [sh \in {sh \in Shows : <<p, sh>> \in DOMAIN showWS} |-> showWS[<<p, sh>>]]

\* Show.getShowDetailsForProfile: the show with its seasons and episodes as
\* the profile sees them, or null when the profile has no such show.
DetailsView(p, sh) ==
    IF <<p, sh>> \notin DOMAIN showWS
    THEN [found |-> FALSE, status |-> "NONE", seasons |-> <<>>, episodes |-> <<>>]
    ELSE [found |-> TRUE,
          status |-> showWS[<<p, sh>>],
          seasons |-> [s \in {s \in SeasonsOfShow(sh) : <<p, s>> \in DOMAIN seasonWS}
                          |-> seasonWS[<<p, s>>]],
          episodes |-> [e \in {e \in EpisodesOfShow(sh) : <<p, e>> \in DOMAIN episodeWS}
                          |-> episodeWS[<<p, e>>]]]

\* A value a model method returns to the service: a boolean or a row count.
BoolVal(b) == [t |-> "bool", b |-> b, n |-> 0]
IntVal(n) == [t |-> "int", b |-> FALSE, n |-> n]

\* --------------------------------------------- ShowService (showService)

\* The reads and the invalidation run whether or not a cascade is open: a
\* read sees the rows committed so far.

\* getShowsForProfile: getOrSet(PROFILE_SHOWS(p), Show.getAllShowsForProfile).
GetShowsForProfile(p) ==
    /\ nops < MaxRequests
    /\ LET key == PROFILE_SHOWS(p)
           val == IF key \in DOMAIN cache THEN cache[key] ELSE ShowsView(p)
       IN /\ cache' = CacheSet(cache, key, val)
          /\ last' = Done("getShowsForProfile", p, 0, "NONE", FALSE, "ok", val)
    /\ nops' = nops + 1
    /\ UNCHANGED <<bg, hier, store, tx, upd>>

\* getShowDetailsForProfile: getOrSet on the show-details key, then
\* assertExists.
GetShowDetailsForProfile(p, sh) ==
    /\ nops < MaxRequests
    /\ LET key == PROFILE_SHOW_DETAILS(p, sh)
           val == IF key \in DOMAIN cache THEN cache[key] ELSE DetailsView(p, sh)
       IN /\ cache' = CacheSet(cache, key, val)
          /\ last' = Done("getShowDetailsForProfile", p, sh, "NONE", FALSE,
                          IF val.found THEN "ok" ELSE "NotFoundError", val)
    /\ nops' = nops + 1
    /\ UNCHANGED <<bg, hier, store, tx, upd>>

\* invalidateProfileCache: invalidatePattern(`profile_${profileId}`).
InvalidateProfileCache(p) ==
    /\ nops < MaxRequests
    /\ cache' = InvalidatePattern(cache, ProfilePattern(p))
    /\ last' = Done("invalidateProfileCache", p, 0, "NONE", FALSE, "void", NoVal)
    /\ nops' = nops + 1
    /\ UNCHANGED <<bg, hier, store, tx, upd>>

\* A slip of the dispatch: the cascade is never used.
UsesCascadeNever(recursive) == FALSE

\* recursive ? Show.updateAllWatchStatuses(...) : Show.updateWatchStatus(...)
UsesCascade(recursive) == recursive

\* A slip of the check of the model's answer: never treated as a failure.
NotUpdatedNever(success) == FALSE

\* if (!success) throw new BadRequestError(...)
NotUpdated(success) == IF success.t = "bool" THEN ~success.b ELSE success.n = 0

\* A slip of the invalidation: the show list of the profile is left cached.
InvalidateAfterUpdateNoList(c, p, sh) ==
    Invalidate(Invalidate(c, PROFILE_SHOW(p, sh)), PROFILE_UNWATCHED_EPISODES(p))

\* The three cache.invalidate calls after a successful update.
InvalidateAfterUpdate(c, p, sh) ==
    Invalidate(Invalidate(Invalidate(c, PROFILE_SHOW(p, sh)), PROFILE_SHOWS(p)),
               PROFILE_UNWATCHED_EPISODES(p))

\* The rest of updateShowWatchStatus once the model method has answered
\* `success`: throw when it is falsy, else invalidate and return it.
\* `old` is the show-level status the update replaced.
UpdateShowWatchStatusReturns(p, sh, st, recursive, success, end, old) ==
    IF NotUpdated(success)
    THEN /\ cache' = cache
         /\ last' = Done("updateShowWatchStatus", p, sh, st, recursive, "BadRequestError", end)
         /\ upd' = IF end.end = "none" THEN upd ELSE NoUpd
    ELSE /\ cache' = InvalidateAfterUpdate(cache, p, sh)
         /\ last' = Done("updateShowWatchStatus", p, sh, st, recursive, "ok", end)
         /\ upd' = [p |-> p, show |-> sh, st |-> st, old |-> old,
                    listed |-> PROFILE_SHOWS(p) \in DOMAIN cache]

\* updateShowWatchStatus(p, sh, st, recursive) on the show-only path:
\* Show.updateWatchStatus is one UPDATE of the show-level row.
UpdateShowWatchStatus(p, sh, st, recursive) ==
    /\ nops < MaxRequests
    /\ ~UsesCascade(recursive)
    /\ tx.pc = "idle"
    /\ showWS' = SetStatus(showWS, {<<p, sh>>}, st)
    /\ UpdateShowWatchStatusReturns(p, sh, st, recursive,
            BoolVal(AffectedRows(showWS, {<<p, sh>>}) > 0),
            TxEnd(IF AffectedRows(showWS, {<<p, sh>>}) > 0 THEN "auto" ELSE "none", "show"),
            StatusOf(showWS, <<p, sh>>))
    /\ nops' = nops + 1
    /\ UNCHANGED <<bg, hier, seasonWS, episodeWS, tx>>

\* updateShowWatchStatus(p, sh, st, true): Show.updateAllWatchStatuses
\* opens its transaction.
ShowUpdateAllBegin(p, sh, st) ==
    /\ nops < MaxRequests
    /\ UsesCascade(TRUE)
    /\ tx.pc = "idle"
    /\ tx' = [IdleTx EXCEPT !.pc = "show", !.kind = "show", !.p = p, !.id = sh, !.st = st]
    /\ nops' = nops + 1
    /\ UNCHANGED <<bg, hier, store, cache, last, upd>>

\* The show-level UPDATE; 0 is returned when the row does not exist.
ShowUpdateAllShowStmt ==
    /\ tx.kind = "show" /\ tx.pc = "show"
    /\ IF AffectedRows(showWS, {<<tx.p, tx.id>>}) = 0
       THEN /\ tx' = IdleTx
            /\ UpdateShowWatchStatusReturns(tx.p, tx.id, tx.st, TRUE, IntVal(0),
                                            TxEnd("none", tx.pc), "NONE")
       ELSE /\ tx' = [tx EXCEPT !.pc = "seasons", !.shRows = {<<tx.p, tx.id>>}]
            /\ UNCHANGED <<cache, last, upd>>
    /\ UNCHANGED <<bg, hier, store, nops>>

\* The UPDATE of every season-level association under the show.
ShowUpdateAllSeasonStmt ==
    /\ tx.kind = "show" /\ tx.pc = "seasons"
    /\ tx' = [tx EXCEPT !.pc = "episodes",
                        !.sRows = {k \in DOMAIN seasonWS :
                                     k[1] = tx.p /\ k[2] \in SeasonsOfShow(tx.id)}]
    /\ UNCHANGED <<bg, hier, store, cache, last, nops, upd>>

\* The UPDATE of every episode-level association under the show.
ShowUpdateAllEpisodeStmt ==
    /\ tx.kind = "show" /\ tx.pc = "episodes"
    /\ tx' = [tx EXCEPT !.pc = "commit",
                        !.eRows = {k \in DOMAIN episodeWS :
                                     k[1] = tx.p /\ k[2] \in EpisodesOfShow(tx.id)}]
    /\ UNCHANGED <<bg, hier, store, cache, last, nops, upd>>

\* The transaction keeps what it wrote when it fails (no rollback).
ShowUpdateAllFailsKeepingWrites ==
    /\ tx.kind = "show" /\ tx.pc \in {"show", "seasons", "episodes", "commit"}
    /\ showWS' = SetStatus(showWS, tx.shRows, tx.st)
    /\ seasonWS' = SetStatus(seasonWS, tx.sRows, tx.st)
    /\ episodeWS' = SetStatus(episodeWS, tx.eRows, tx.st)
    /\ last' = Done("updateShowWatchStatus", tx.p, tx.id, tx.st, TRUE, "StorageError",
                    TxEnd("none", tx.pc))
    /\ upd' = NoUpd
    /\ tx' = IdleTx
    /\ UNCHANGED <<bg, hier, cache, nops>>

\* A statement or the commit fails: the transaction is rolled back and the
\* StorageError reaches the caller of updateShowWatchStatus.
ShowUpdateAllFails ==
    /\ tx.kind = "show" /\ tx.pc \in {"show", "seasons", "episodes", "commit"}
    /\ last' = Done("updateShowWatchStatus", tx.p, tx.id, tx.st, TRUE, "StorageError",
                    TxEnd("rollback", tx.pc))
    /\ tx' = IdleTx
    /\ UNCHANGED <<bg, hier, store, cache, nops, upd>>

\* The commit: the writes become visible, the number of episode rows
\* affected is returned and updateShowWatchStatus goes on with it.
ShowUpdateAllCommit ==
    /\ tx.kind = "show" /\ tx.pc = "commit"
    /\ showWS' = SetStatus(showWS, tx.shRows, tx.st)
    /\ seasonWS' = SetStatus(seasonWS, tx.sRows, tx.st)
    /\ episodeWS' = SetStatus(episodeWS, tx.eRows, tx.st)
    /\ UpdateShowWatchStatusReturns(tx.p, tx.id, tx.st, TRUE, IntVal(Cardinality(tx.eRows)),
                                    TxEnd("commit", tx.pc), StatusOf(showWS, <<tx.p, tx.id>>))
    /\ tx' = IdleTx
    /\ UNCHANGED <<bg, hier, nops>>

Next ==
    \/ \E p \in Profiles : GetShowsForProfile(p)
    \/ \E p \in Profiles, sh \in Shows : GetShowDetailsForProfile(p, sh)
    \/ \E p \in Profiles : InvalidateProfileCache(p)
    \/ \E p \in Profiles, sh \in Shows, st \in Status, recursive \in BOOLEAN :
          UpdateShowWatchStatus(p, sh, st, recursive)
    \/ \E p \in Profiles, sh \in Shows, st \in Status : ShowUpdateAllBegin(p, sh, st)
    \/ ShowUpdateAllShowStmt
    \/ ShowUpdateAllSeasonStmt
    \/ ShowUpdateAllEpisodeStmt
    \/ ShowUpdateAllCommit
    \/ ShowUpdateAllFails

Spec == Init /\ [][Next]_vars

\* ------------------------------------------- episode lists of a profile

\* The episodes the profile has an association for (profile_episodes).
EpisodesOfProfile(p) == {e \in DOMAIN episodeRows : <<p, e>> \in DOMAIN episodeWS}

\* What the producer of getEpisodesForProfile reads: recent and upcoming
\* episodes (air dates are not modelled: the profile's episodes) and
\* Show.getNextUnwatchedEpisodesForProfile, the episodes not watched yet.
EpisodesView(p) ==
    [recentEpisodes |-> EpisodesOfProfile(p),
     upcomingEpisodes |-> EpisodesOfProfile(p),
     nextUnwatchedEpisodes |-> {e \in EpisodesOfProfile(p) : episodeWS[<<p, e>>] # "WATCHED"}]

\* this.cache.getOrSet(CACHE_KEYS.PROFILE_EPISODES(profileId), ...): the
\* cache after the call and the value returned.
EpisodesFromCache(c, p) ==
    IF PROFILE_EPISODES(p) \in DOMAIN c THEN c[PROFILE_EPISODES(p)] ELSE EpisodesView(p)

\* getEpisodesForProfile.
GetEpisodesForProfile(p) ==
    /\ nops < MaxRequests
    /\ cache' = CacheSet(cache, PROFILE_EPISODES(p), EpisodesFromCache(cache, p))
    /\ last' = Done("getEpisodesForProfile", p, 0, "NONE", FALSE, "ok", EpisodesFromCache(cache, p))
    /\ nops' = nops + 1
    /\ UNCHANGED <<bg, hier, store, tx, upd>>

NextEpisodes ==
    \/ \E p \in Profiles : GetEpisodesForProfile(p)
    \/ \E p \in Profiles, sh \in Shows, st \in Status, recursive \in BOOLEAN :
          UpdateShowWatchStatus(p, sh, st, recursive)
    \/ \E p \in Profiles, sh \in Shows, st \in Status : ShowUpdateAllBegin(p, sh, st)
    \/ ShowUpdateAllShowStmt
    \/ ShowUpdateAllSeasonStmt
    \/ ShowUpdateAllEpisodeStmt
    \/ ShowUpdateAllCommit
    \/ ShowUpdateAllFails

SpecEpisodes == Init /\ [][NextEpisodes]_vars

\* ------------------------------------ CacheService.getOrSet, step by step

\* getOrSet finds the key present and unexpired.
CacheHitNever(c, key) == FALSE

CacheHit(c, key) == key \in DOMAIN c

\* Caller c calls getShowsForProfile(p): getOrSet looks the key up, returns
\* the cached value on a hit and invokes the producer on a miss.  epoch is
\* the number of update requests made before the call.  Callers are
\* numbered in the order of their calls.
GetOrSetCall(c, p) ==
    /\ calls[c].pc = "idle"
    /\ \A b \in Callers : b < c => calls[b].pc # "idle"
    /\ calls' = [calls EXCEPT ![c] =
          IF CacheHit(cache, PROFILE_SHOWS(p))
          THEN [pc |-> "done", p |-> p, hit |-> TRUE, invoked |-> FALSE,
                val |-> cache[PROFILE_SHOWS(p)], epoch |-> nops, clean |-> TRUE]
          ELSE [pc |-> "producing", p |-> p, hit |-> FALSE, invoked |-> TRUE,
                val |-> NoVal, epoch |-> nops, clean |-> FALSE]]
    /\ UNCHANGED <<hier, store, cache, tx, last, nops, upd,
                   showRows, seasonNumber, loader, sessions, emitted, pending, more>>

\* The producer's read of the store (Show.getAllShowsForProfile) is answered.
GetOrSetProducerReads(c) ==
    /\ calls[c].pc = "producing"
    /\ calls' = [calls EXCEPT ![c].pc = "produced", ![c].val = ShowsView(calls[c].p)]
    /\ UNCHANGED <<hier, store, cache, tx, last, nops, upd,
                   showRows, seasonNumber, loader, sessions, emitted, pending, more>>

\* getOrSet stores the producer's value under the key and returns it.
GetOrSetStores(c) ==
    /\ calls[c].pc = "produced"
    /\ cache' = CacheSet(cache, PROFILE_SHOWS(calls[c].p), calls[c].val)
    /\ calls' = [calls EXCEPT ![c].pc = "done", ![c].clean = (nops = calls[c].epoch)]
    /\ UNCHANGED <<hier, store, tx, last, nops, upd,
                   showRows, seasonNumber, loader, sessions, emitted, pending, more>>

\* The producer fails: the error reaches the caller, nothing is stored.
GetOrSetProducerFails(c) ==
    /\ calls[c].pc = "producing"
    /\ calls' = [calls EXCEPT ![c].pc = "failed"]
    /\ UNCHANGED <<hier, store, cache, tx, last, nops, upd,
                   showRows, seasonNumber, loader, sessions, emitted, pending, more>>

\* The TTL of an entry runs out.
CacheExpire(p) ==
    /\ PROFILE_SHOWS(p) \in DOMAIN cache
    /\ cache' = Invalidate(cache, PROFILE_SHOWS(p))
    /\ UNCHANGED <<bg, hier, store, tx, last, nops, upd>>

NextGetOrSet ==
    \/ \E c \in Callers, p \in Profiles : GetOrSetCall(c, p)
    \/ \E c \in Callers : GetOrSetProducerReads(c)
    \/ \E c \in Callers : GetOrSetStores(c)
    \/ \E c \in Callers : GetOrSetProducerFails(c)
    \/ \E p \in Profiles : CacheExpire(p)
    \/ \E p \in Profiles, st \in Status :
          nops < MaxWrites /\ UpdateShowWatchStatus(p, 1, st, FALSE)

SpecGetOrSet == Init /\ [][NextGetOrSet]_vars

\* ------------------------------------------------- favorites: the store

\* The store before show 2 is known: show 1 with season 1 (episodes 1, 2)
\* and season 2 (no episode); profile 1 has show 1 in its favorites,
\* profile 10 has no favorite.
InitNewContent ==
    /\ showRows = {1}
    /\ seasonRows = (1 :> 1) @@ (2 :> 1)
    /\ seasonNumber = (1 :> 1) @@ (2 :> 2)
    /\ episodeRows = (1 :> 1) @@ (2 :> 1)
    /\ showWS = (<<1, 1>> :> DefaultStatus)
    /\ seasonWS = (<<1, 1>> :> DefaultStatus) @@ (<<1, 2>> :> DefaultStatus)
    /\ episodeWS = (<<1, 1>> :> DefaultStatus) @@ (<<1, 2>> :> DefaultStatus)
    /\ cache = <<>>
    /\ tx = IdleTx
    /\ last = Done("init", 0, 0, "NONE", FALSE, "void", NoVal)
    /\ nops = 0
    /\ upd = NoUpd
    /\ InitBackground

\* What the content provider reports for show 2: its seasons in the
\* provider's order, each with its season_number and its episodes.
ProviderResponses ==
    { << [season_number |-> 0, episodes |-> 1], [season_number |-> 1, episodes |-> 2] >>,
      << [season_number |-> 2, episodes |-> 1], [season_number |-> 1, episodes |-> 0] >>,
      << [season_number |-> 0, episodes |-> 1] >> }

\* result.insertId of an INSERT into a table with an auto-increment id.
InsertId(rows) ==
    IF DOMAIN rows = {} THEN 1
    ELSE 1 + CHOOSE m \in DOMAIN rows : \A k \in DOMAIN rows : k <= m

\* INSERT IGNORE INTO t (profile_id, id) VALUES (?,?) written without the
\* IGNORE's effect: an existing row is replaced by a fresh one.
InsertReplacing(tbl, k) ==
    [x \in DOMAIN tbl \cup {k} |-> IF x = k THEN DefaultStatus ELSE tbl[x]]

\* INSERT IGNORE INTO t (profile_id, id) VALUES (?,?): a new row with the
\* default status, or nothing when the profile has a row for the node.
InsertIgnore(tbl, k) ==
    IF k \in DOMAIN tbl THEN tbl
    ELSE [x \in DOMAIN tbl \cup {k} |-> IF x = k THEN DefaultStatus ELSE tbl[x]]

\* INSERT IGNORE of several rows.
InsertIgnoreAll(tbl, ks) ==
    [x \in DOMAIN tbl \cup ks |-> IF x \in DOMAIN tbl THEN tbl[x] ELSE DefaultStatus]

\* DELETE of the rows of a profile with their id in ids.
DeleteRows(tbl, p, ids) == [x \in {x \in DOMAIN tbl : ~(x[1] = p /\ x[2] \in ids)} |-> tbl[x]]

\* Show.getShowForProfile: the show as the profile sees it, with the
\* seasons persisted and, for each, the number of its episodes.
ShowForProfile(p, sh) ==
    [status |-> StatusOf(showWS, <<p, sh>>),
     seasons |-> [n \in {seasonNumber[s] : s \in {s \in SeasonsOfShow(sh) : <<p, s>> \in DOMAIN seasonWS}}
                    |-> Cardinality({e \in EpisodesOfProfile(p) :
                           episodeRows[e] \in SeasonsOfShow(sh) /\ seasonNumber[episodeRows[e]] = n})]]

\* Account.findAccountIdByProfileId.
Accounts == {1, 2}
AccountOf(p) == IF p = 1 THEN 1 ELSE 2

\* Episode.saveFavorite(profile_id, episode_id).
EpisodeSaveFavorite(p, e) ==
    /\ nops < MaxFavorites
    /\ tx.pc = "idle"
    /\ episodeWS' = InsertIgnore(episodeWS, <<p, e>>)
    /\ last' = Done("Episode.saveFavorite", p, e, "NONE", FALSE, "void", NoVal)
    /\ nops' = nops + 1
    /\ upd' = NoUpd
    /\ UNCHANGED <<bg, hier, showWS, seasonWS, cache, tx>>

\* season.saveFavorite(profileId) of the season with id s.
SeasonSaveFavorite(p, s) ==
    /\ nops < MaxFavorites
    /\ tx.pc = "idle"
    /\ seasonWS' = InsertIgnore(seasonWS, <<p, s>>)
    /\ last' = Done("Season.saveFavorite", p, s, "NONE", FALSE, "void", NoVal)
    /\ nops' = nops + 1
    /\ upd' = NoUpd
    /\ UNCHANGED <<bg, hier, showWS, episodeWS, cache, tx>>

\* --------------------------------------- ShowService: favorites requests

\* The profile's cache namespace is left as it is.
ProfileCacheKept(c, p) == c

\* this.invalidateProfileCache(profileId) applied to cache c.
ProfileCacheInvalidated(c, p) == InvalidatePattern(c, ProfilePattern(p))

\* this.getEpisodesForProfile(profileId) inside a favorites request: the
\* entry of cache c when there is one, else the lists read from the store.
EpisodesRead(c, p, fresh) ==
    IF PROFILE_EPISODES(p) \in DOMAIN c THEN c[PROFILE_EPISODES(p)] ELSE fresh

\* No show is ever found in the store.
ExistingShowNever(sh) == FALSE

\* Show.findByTMDBId(showId) finds a row.
ExistingShow(sh) == sh \in showRows

\* A slip of the filter: the specials (season_number 0) pass.
ValidSeasonAny(n) == n >= 0

\* season.season_number > 0
ValidSeason(n) == n > 0

\* show.seasons.filter(...)
ValidSeasons(resp) == SelectSeq(resp, LAMBDA s : ValidSeason(s.season_number))

\* The seasons are taken last first.
SeasonsInReverseOrder(resp) ==
    [i \in 1..Len(ValidSeasons(resp)) |-> ValidSeasons(resp)[Len(ValidSeasons(resp)) + 1 - i]]

\* for (const responseSeason of validSeasons): the seasons in the order the
\* loop takes them, the provider's.
SeasonsInLoopOrder(resp) == ValidSeasons(resp)

\* What the run has done so far, in order: an entry for each call it has
\* made (getSeasonDetails of season n) or seen return (the save of season
\* n, of its association, of its episode at position pos of the provider's
\* list, of that episode's association, the delay).
LogEntry(ev, n, pos) == [ev |-> ev, n |-> n, pos |-> pos]

\* The loop calls getSeasonDetails for the first season, if there is one.
FirstFetch(seasons) ==
    IF seasons = <<>> THEN <<>> ELSE <<LogEntry("fetch", Head(seasons).season_number, 0)>>

\* The run is started with `await`: the request has not returned.
LoaderStartedAwaited(p, sh, resp) ==
    [IdleLoader EXCEPT !.pc = IF ValidSeasons(resp) = <<>> THEN "notifyRead" ELSE "fetch",
                       !.p = p, !.show = sh, !.resp = resp, !.queue = SeasonsInLoopOrder(resp),
                       !.returned = FALSE, !.runs = loader.runs + 1,
                       !.log = FirstFetch(SeasonsInLoopOrder(resp))]

\* this.fetchSeasonsAndEpisodes(responseShow, id, profileId) is called
\* without await and runs up to its first await; the request then returns.
LoaderStarted(p, sh, resp) ==
    [IdleLoader EXCEPT !.pc = IF ValidSeasons(resp) = <<>> THEN "notifyRead" ELSE "fetch",
                       !.p = p, !.show = sh, !.resp = resp, !.queue = SeasonsInLoopOrder(resp),
                       !.returned = TRUE, !.runs = loader.runs + 1,
                       !.log = FirstFetch(SeasonsInLoopOrder(resp))]

\* The seasons of the show that showToFavorite.saveFavorite(profileId,
\* true) marks: Season.saveFavoriteWithEpisodes is a plain INSERT, so the
\* first season the profile already has a row for ends the loop with a
\* duplicate-key error.
SeasonsMarked(p, sh) ==
    {s \in SeasonsOfShow(sh) :
        \A d \in SeasonsOfShow(sh) : <<p, d>> \in DOMAIN seasonWS => s < d}

\* The episode inserts that saveFavoriteWithEpisodes issues for the marked
\* seasons: Episode.saveFavorite is called for each without await.
EpisodesIssued(p, sh) ==
    {<<p, e>> : e \in {e \in DOMAIN episodeRows : episodeRows[e] \in SeasonsMarked(p, sh)}}

\* favoriteExistingShow.  The Episode.saveFavorite calls of
\* saveFavoriteWithEpisodes are not awaited: each insert has either been
\* executed when the method goes on or is still in flight.
FavoriteExistingShow(p, sh) ==
    /\ UNCHANGED <<hier, showRows, seasonNumber, loader>>
    /\ showWS' = InsertIgnore(showWS, <<p, sh>>)
    /\ seasonWS' = InsertIgnoreAll(seasonWS, {<<p, s>> : s \in SeasonsMarked(p, sh)})
    /\ \E landed \in SUBSET EpisodesIssued(p, sh) :
          /\ episodeWS' = InsertIgnoreAll(episodeWS, landed)
          /\ pending' = pending \cup (EpisodesIssued(p, sh) \ landed)
    /\ IF SeasonsMarked(p, sh) # SeasonsOfShow(sh)
       THEN /\ cache' = cache
            /\ last' = Done("addShowToFavorites", p, sh, "NONE", TRUE, "DatabaseError", NoVal)
       ELSE /\ cache' = CacheSet(ProfileCacheInvalidated(cache, p), PROFILE_EPISODES(p),
                                 EpisodesRead(ProfileCacheInvalidated(cache, p), p, EpisodesView(p)'))
            /\ last' = Done("addShowToFavorites", p, sh, "NONE", TRUE, "ok",
                            [favoritedShow |-> ShowForProfile(p, sh)',
                             episodes |-> cache'[PROFILE_EPISODES(p)]])

\* favoriteNewShow, the provider having answered getShowDetails with resp.
FavoriteNewShow(p, sh, resp) ==
    /\ loader.pc \in {"idle", "done", "failed"}
    /\ UNCHANGED <<seasonRows, episodeRows, seasonNumber, seasonWS, episodeWS, pending>>
    /\ showRows' = showRows \cup {sh}
    /\ showWS' = InsertIgnore(showWS, <<p, sh>>)
    /\ cache' = ProfileCacheInvalidated(cache, p)
    /\ loader' = LoaderStarted(p, sh, resp)
    /\ last' = Done("addShowToFavorites", p, sh, "NONE", FALSE, "ok",
                    [favoritedShow |-> ShowForProfile(p, sh)', episodes |-> NoVal])

\* addShowToFavorites(profileId, showId).
AddShowToFavorites(p, sh) ==
    /\ nops < MaxFavorites
    /\ tx.pc = "idle"
    /\ IF ExistingShow(sh)
       THEN FavoriteExistingShow(p, sh)
       ELSE \E resp \in ProviderResponses : FavoriteNewShow(p, sh, resp)
    /\ nops' = nops + 1
    /\ upd' = NoUpd
    /\ UNCHANGED <<tx, sessions, emitted, calls, more>>

\* tmdbService.getShowDetails fails: nothing is persisted, the error
\* reaches the caller of addShowToFavorites.
AddShowToFavoritesProviderFails(p, sh) ==
    /\ nops < MaxFavorites
    /\ tx.pc = "idle"
    /\ ~ExistingShow(sh)
    /\ last' = Done("addShowToFavorites", p, sh, "NONE", FALSE, "ProviderError", NoVal)
    /\ nops' = nops + 1
    /\ UNCHANGED <<bg, hier, store, cache, tx, upd>>

\* The result of save() is not looked at.
SaveFailureIgnored(isSaved) == FALSE

\* if (!isSaved) throw new BadRequestError(...)
SaveFailureThrown(isSaved) == ~isSaved

\* favoriteNewShow when newShowToFavorite.save() returns false: no row of
\* table shows is written and the BadRequestError reaches the caller of
\* addShowToFavorites before saveFavorite and the loader are reached.
AddShowToFavoritesSaveFails(p, sh) ==
    /\ nops < MaxFavorites
    /\ tx.pc = "idle"
    /\ ~ExistingShow(sh)
    /\ loader.pc \in {"idle", "done", "failed"}
    /\ UNCHANGED <<hier, showRows, seasonNumber, seasonWS, episodeWS, tx,
                   sessions, emitted, pending, calls, more>>
    /\ IF SaveFailureThrown(FALSE)
       THEN /\ last' = Done("addShowToFavorites", p, sh, "NONE", FALSE, "BadRequestError", NoVal)
            /\ UNCHANGED <<showWS, cache, loader, upd>>
       ELSE /\ showWS' = InsertIgnore(showWS, <<p, sh>>)
            /\ cache' = ProfileCacheInvalidated(cache, p)
            /\ \E resp \in ProviderResponses : loader' = LoaderStarted(p, sh, resp)
            /\ last' = Done("addShowToFavorites", p, sh, "NONE", FALSE, "ok",
                            [favoritedShow |-> ShowForProfile(p, sh)', episodes |-> NoVal])
            /\ upd' = NoUpd
    /\ nops' = nops + 1

\* An insert that Season.saveFavoriteWithEpisodes left in flight is
\* executed.
EpisodeFavoriteLands(k) ==
    /\ k \in pending
    /\ episodeWS' = InsertIgnore(episodeWS, k)
    /\ pending' = pending \ {k}
    /\ upd' = NoUpd
    /\ UNCHANGED <<hier, showWS, seasonWS, cache, tx, last, nops,
                   showRows, seasonNumber, loader, sessions, emitted, calls, more>>

\* removeShowFromFavorites(profileId, showId): NotFoundError when the show
\* does not exist; else showToRemove.removeFavorite(profileId), whose
\* delete takes the associations under the show with it, the invalidation
\* and the episode lists read anew.
RemoveShowFromFavorites(p, sh) ==
    /\ nops < MaxFavorites
    /\ tx.pc = "idle"
    /\ UNCHANGED <<bg, hier, tx>>
    /\ IF sh \notin showRows
       THEN /\ UNCHANGED <<store, cache>>
            /\ last' = Done("removeShowFromFavorites", p, sh, "NONE", FALSE, "NotFoundError", NoVal)
            /\ upd' = upd
       ELSE /\ showWS' = DeleteRows(showWS, p, {sh})
            /\ seasonWS' = DeleteRows(seasonWS, p, SeasonsOfShow(sh))
            /\ episodeWS' = DeleteRows(episodeWS, p, EpisodesOfShow(sh))
            /\ cache' = CacheSet(ProfileCacheInvalidated(cache, p), PROFILE_EPISODES(p),
                                 EpisodesRead(ProfileCacheInvalidated(cache, p), p, EpisodesView(p)'))
            /\ last' = Done("removeShowFromFavorites", p, sh, "NONE", FALSE, "ok",
                            [removedShow |-> sh, episodes |-> cache'[PROFILE_EPISODES(p)]])
            /\ upd' = NoUpd
    /\ nops' = nops + 1

\* ------------------------- ShowService.fetchSeasonsAndEpisodes, by await

LoaderFrame == <<showRows, showWS, cache, tx, last, nops, sessions, pending, calls, more>>

\* tmdbService.getSeasonDetails answers for the season at the head of the
\* list.
LoaderFetchSeason ==
    /\ loader.pc = "fetch"
    /\ loader' = [loader EXCEPT !.pc = "saveSeason", !.eps = Head(loader.queue).episodes]
    /\ UNCHANGED <<LoaderFrame, hier, seasonNumber, seasonWS, episodeWS, emitted, upd>>

\* season.save(): INSERT INTO seasons.
LoaderSaveSeason ==
    /\ loader.pc = "saveSeason"
    /\ seasonRows' = seasonRows @@ (InsertId(seasonRows) :> loader.show)
    /\ seasonNumber' = seasonNumber @@ (InsertId(seasonRows) :> Head(loader.queue).season_number)
    /\ loader' = [loader EXCEPT !.pc = "favSeason", !.season = InsertId(seasonRows),
                                !.log = Append(loader.log,
                                               LogEntry("season", Head(loader.queue).season_number, 0))]
    /\ UNCHANGED <<LoaderFrame, episodeRows, seasonWS, episodeWS, emitted, upd>>

\* season.saveFavorite(Number(profileId)).
LoaderSaveSeasonFavorite ==
    /\ loader.pc = "favSeason"
    /\ seasonWS' = InsertIgnore(seasonWS, <<loader.p, loader.season>>)
    /\ loader' = [loader EXCEPT !.pc = IF loader.eps > 0 THEN "saveEpisode" ELSE "delay",
                                !.log = Append(loader.log,
                                               LogEntry("seasonFav", Head(loader.queue).season_number, 0))]
    /\ upd' = NoUpd
    /\ UNCHANGED <<LoaderFrame, hier, seasonNumber, episodeWS, emitted>>

\* The position, in responseData.episodes, of the episode the inner loop
\* is at: eps episodes of the season are still to be saved.
EpisodePosition == Head(loader.queue).episodes - loader.eps + 1

\* episodesDb.saveEpisode(...) of the next episode of the season.
LoaderSaveEpisode ==
    /\ loader.pc = "saveEpisode"
    /\ episodeRows' = episodeRows @@ (InsertId(episodeRows) :> loader.season)
    /\ loader' = [loader EXCEPT !.pc = "favEpisode", !.ep = InsertId(episodeRows),
                                !.log = Append(loader.log,
                                               LogEntry("episode", Head(loader.queue).season_number,
                                                        EpisodePosition))]
    /\ UNCHANGED <<LoaderFrame, seasonRows, seasonNumber, seasonWS, episodeWS, emitted, upd>>

\* episodesDb.saveFavorite(Number(profileId), episode.id).
LoaderSaveEpisodeFavorite ==
    /\ loader.pc = "favEpisode"
    /\ episodeWS' = InsertIgnore(episodeWS, <<loader.p, loader.ep>>)
    /\ loader' = [loader EXCEPT !.pc = IF loader.eps > 1 THEN "saveEpisode" ELSE "delay",
                                !.eps = loader.eps - 1,
                                !.log = Append(loader.log,
                                               LogEntry("episodeFav", Head(loader.queue).season_number,
                                                        EpisodePosition))]
    /\ upd' = NoUpd
    /\ UNCHANGED <<LoaderFrame, hier, seasonNumber, seasonWS, emitted>>

\* The timer is never resolved.
DelayNeverElapses == FALSE

\* await new Promise((resolve) => setTimeout(resolve, 200)): the timer
\* fires and resolves the promise.
DelayElapses == TRUE

\* The delay between two seasons has passed; after the last season
\* notifyShowDataLoaded is called and runs up to its first await.
LoaderDelay ==
    /\ loader.pc = "delay"
    /\ DelayElapses
    /\ loader' = [loader EXCEPT !.pc = IF Len(loader.queue) > 1 THEN "fetch" ELSE "notifyRead",
                                !.queue = Tail(loader.queue),
                                !.log = Append(loader.log,
                                               LogEntry("delay", Head(loader.queue).season_number, 0))
                                        \o FirstFetch(Tail(loader.queue))]
    /\ UNCHANGED <<LoaderFrame, hier, seasonNumber, seasonWS, episodeWS, emitted, upd>>

\* A provider or store call of the loop throws: the catch block logs.
LoaderFailsAndRetries ==
    /\ loader.pc \in {"fetch", "saveSeason", "favSeason", "saveEpisode", "favEpisode"}
    /\ loader' = [loader EXCEPT !.pc = "fetch", !.queue = SeasonsInLoopOrder(loader.resp)]
    /\ UNCHANGED <<LoaderFrame, hier, seasonNumber, seasonWS, episodeWS, emitted, upd>>

LoaderFails ==
    /\ loader.pc \in {"fetch", "saveSeason", "favSeason", "saveEpisode", "favEpisode"}
    /\ loader' = [loader EXCEPT !.pc = "failed"]
    /\ UNCHANGED <<LoaderFrame, hier, seasonNumber, seasonWS, episodeWS, emitted, upd>>

\* notifyShowDataLoaded: the account id and the loaded show are read.
LoaderNotifyRead ==
    /\ loader.pc = "notifyRead"
    /\ loader' = [loader EXCEPT !.pc = "notifyEmit", !.view = ShowForProfile(loader.p, loader.show)]
    /\ UNCHANGED <<LoaderFrame, hier, seasonNumber, seasonWS, episodeWS, emitted, upd>>

\* A read of notifyShowDataLoaded throws: its catch block logs.
LoaderNotifyFails ==
    /\ loader.pc = "notifyRead"
    /\ loader' = [loader EXCEPT !.pc = "done"]
    /\ UNCHANGED <<LoaderFrame, hier, seasonNumber, seasonWS, episodeWS, emitted, upd>>

\* Any connected socket is taken, whatever its account.
FindUserSocketAny(a) == sessions

\* sockets.find((socket) => socket.data.accountId === account_id)
FindUserSocket(a) == {s \in sessions : s = a}

\* The socket of the account, if there is one, gets 'updateShowFavorite'.
LoaderNotifyEmit ==
    /\ loader.pc = "notifyEmit"
    /\ emitted' = IF FindUserSocket(AccountOf(loader.p)) # {}
                  THEN Append(emitted, [to |-> CHOOSE s \in FindUserSocket(AccountOf(loader.p)) : TRUE,
                                        show |-> loader.view])
                  ELSE emitted
    /\ loader' = [loader EXCEPT !.pc = "done"]
    /\ UNCHANGED <<LoaderFrame, hier, seasonNumber, seasonWS, episodeWS, upd>>

\* A client connects with a token of account u and account_id a in its
\* handshake: io.use verifies the token and sets socket.data.accountId to
\* the account_id supplied.
SessionConnectAs(u, a) ==
    /\ a \notin sessions
    /\ sessions' = sessions \cup {a}
    /\ tokenOf' = tokenOf @@ (a :> u)
    /\ UNCHANGED <<hier, store, cache, tx, last, nops, upd,
                   showRows, seasonNumber, loader, emitted, pending, calls,
                   jobs, movieRows, movieWS>>

\* A client of account a connects (io.use accepts the handshake).
SessionConnect(a) ==
    /\ a \notin sessions
    /\ sessions' = sessions \cup {a}
    /\ tokenOf' = tokenOf @@ (a :> a)
    /\ UNCHANGED <<hier, store, cache, tx, last, nops, upd,
                   showRows, seasonNumber, loader, emitted, pending, calls,
                   jobs, movieRows, movieWS>>

\* The client of account a disconnects.
SessionDisconnect(a) ==
    /\ a \in sessions
    /\ sessions' = sessions \ {a}
    /\ tokenOf' = [s \in DOMAIN tokenOf \ {a} |-> tokenOf[s]]
    /\ UNCHANGED <<hier, store, cache, tx, last, nops, upd,
                   showRows, seasonNumber, loader, emitted, pending, calls,
                   jobs, movieRows, movieWS>>

NextLoader ==
    \/ \E p \in Profiles, sh \in Shows : AddShowToFavorites(p, sh)
    \/ \E p \in Profiles, sh \in Shows : AddShowToFavoritesProviderFails(p, sh)
    \/ \E k \in pending : EpisodeFavoriteLands(k)
    \/ LoaderFetchSeason
    \/ LoaderSaveSeason
    \/ LoaderSaveSeasonFavorite
    \/ LoaderSaveEpisode
    \/ LoaderSaveEpisodeFavorite
    \/ LoaderDelay
    \/ LoaderFails
    \/ LoaderNotifyRead
    \/ LoaderNotifyFails
    \/ LoaderNotifyEmit
    \/ \E a \in Accounts : SessionConnect(a)
    \/ \E a \in Accounts : SessionDisconnect(a)

SpecLoader == InitNewContent /\ [][NextLoader]_vars

\* The loader with clients whose handshake names any account.
NextSockets ==
    \/ \E p \in Profiles, sh \in Shows : AddShowToFavorites(p, sh)
    \/ LoaderFetchSeason
    \/ LoaderSaveSeason
    \/ LoaderSaveSeasonFavorite
    \/ LoaderSaveEpisode
    \/ LoaderSaveEpisodeFavorite
    \/ LoaderDelay
    \/ LoaderFails
    \/ LoaderNotifyRead
    \/ LoaderNotifyFails
    \/ LoaderNotifyEmit
    \/ \E u \in Accounts, a \in Accounts : SessionConnectAs(u, a)
    \/ \E a \in Accounts : SessionDisconnect(a)

SpecSockets == InitNewContent /\ [][NextSockets]_vars

\* A step of the run: a call it awaits returns or fails.
LoaderSteps ==
    \/ LoaderFetchSeason
    \/ LoaderSaveSeason
    \/ LoaderSaveSeasonFavorite
    \/ LoaderSaveEpisode
    \/ LoaderSaveEpisodeFavorite
    \/ LoaderDelay
    \/ LoaderFails
    \/ LoaderNotifyRead
    \/ LoaderNotifyFails
    \/ LoaderNotifyEmit

\* Every call the run awaits returns or fails in the end.
SpecLoaderFair == SpecLoader /\ WF_vars(LoaderSteps)

\* ------------------------------- favorites, status updates and the loader

NextFavorites ==
    \/ \E p \in Profiles, sh \in Shows : AddShowToFavorites(p, sh)
    \/ \E p \in Profiles, sh \in Shows : AddShowToFavoritesProviderFails(p, sh)
    \/ \E p \in Profiles, sh \in Shows : AddShowToFavoritesSaveFails(p, sh)
    \/ \E p \in Profiles, sh \in Shows : RemoveShowFromFavorites(p, sh)
    \/ \E k \in pending : EpisodeFavoriteLands(k)
    \/ \E p \in Profiles : GetEpisodesForProfile(p)
    \/ \E p \in Profiles : GetShowsForProfile(p)
    \/ \E p \in Profiles, e \in Episodes : EpisodeSaveFavorite(p, e)
    \/ \E p \in Profiles, s \in Seasons : SeasonSaveFavorite(p, s)
    \/ \E p \in Profiles, e \in Episodes, st \in Status : EpisodeUpdateWatchStatus(p, e, st)
    \/ \E p \in Profiles, s \in Seasons : SeasonUpdateWatchStatusByEpisode(p, s)
    \/ LoaderFetchSeason
    \/ LoaderSaveSeason
    \/ LoaderSaveSeasonFavorite
    \/ LoaderSaveEpisode
    \/ LoaderSaveEpisodeFavorite
    \/ LoaderDelay
    \/ LoaderFails
    \/ LoaderNotifyRead
    \/ LoaderNotifyEmit

SpecFavorites == InitNewContent /\ [][NextFavorites]_vars

\* ------------------------------- showsController.updateShowWatchStatus

\* The body of the request carries recursive: true, recursive: false, or no
\* recursive at all.
GivenRecursive == {"omitted", "false", "true"}

\* A request without recursive is a recursive one.
RecursiveDefaultTrue == TRUE

\* const { show_id, status, recursive = false } = req.body
RecursiveDefault == FALSE

RecursiveOf(given) == IF given = "omitted" THEN RecursiveDefault ELSE given = "true"

\* PUT /api/v1/profiles/:profileId/shows/watchstatus: the controller calls
\* showService.updateShowWatchStatus(profileId, show_id, status, recursive),
\* which takes the cascade or the show-only update.
PutShowWatchStatus(p, sh, st, given) ==
    IF UsesCascade(RecursiveOf(given))
    THEN ShowUpdateAllBegin(p, sh, st)
    ELSE UpdateShowWatchStatus(p, sh, st, RecursiveOf(given))

NextShowRequests ==
    \/ \E p \in Profiles, sh \in Shows, st \in Status, given \in GivenRecursive :
          PutShowWatchStatus(p, sh, st, given)
    \/ ShowUpdateAllShowStmt
    \/ ShowUpdateAllSeasonStmt
    \/ ShowUpdateAllEpisodeStmt
    \/ ShowUpdateAllCommit
    \/ ShowUpdateAllFails

SpecShowRequests == Init /\ [][NextShowRequests]_vars

\* ------------ episode status requests: write, then recompute the season

JobFrame == <<hier, showWS, cache, tx, last, nops, upd,
              showRows, seasonNumber, loader, sessions, emitted, pending, calls,
              movieRows, movieWS, tokenOf>>

\* Request j sets the status of episode e for profile p:
\* Episode.updateWatchStatus(p, e, st).  Requests are numbered in the order
\* of their arrival.
EpisodeRequestWrites(j, p, e, st) ==
    /\ jobs[j].pc = "idle"
    /\ \A i \in Jobs : i < j => jobs[i].pc # "idle"
    /\ e \in DOMAIN episodeRows
    /\ episodeWS' = SetStatus(episodeWS, {<<p, e>>}, st)
    /\ jobs' = [jobs EXCEPT ![j] = [NoJob EXCEPT !.pc = "written", !.p = p, !.id = e,
                                                !.season = episodeRows[e], !.st = st]]
    /\ UNCHANGED <<JobFrame, seasonWS>>

\* Season.updateWatchStatusByEpisode(p, season) of request j: the aggregate
\* SELECT is answered.
RecomputeSelects(j) ==
    /\ jobs[j].pc = "written"
    /\ LET statusResult == SeasonStatusQuery(jobs[j].p, jobs[j].season) IN
         jobs' = [jobs EXCEPT ![j].pc = IF Len(statusResult) = 0 THEN "done" ELSE "selected",
                              ![j].seen = IF Len(statusResult) = 0 THEN "NONE"
                                          ELSE statusResult[1].season_status]
    /\ UNCHANGED <<JobFrame, store>>

\* ... and its UPDATE of the season row with the status selected.
RecomputeUpdates(j) ==
    /\ jobs[j].pc = "selected"
    /\ seasonWS' = SetStatus(seasonWS, {<<jobs[j].p, jobs[j].season>>}, jobs[j].seen)
    /\ jobs' = [jobs EXCEPT ![j].pc = "done"]
    /\ UNCHANGED <<JobFrame, episodeWS>>

NextEpisodeRequests ==
    \/ \E j \in Jobs, p \in Profiles, e \in EpisodesOfSeason(1), st \in Status :
          EpisodeRequestWrites(j, p, e, st)
    \/ \E j \in Jobs : RecomputeSelects(j)
    \/ \E j \in Jobs : RecomputeUpdates(j)

SpecEpisodeRequests == Init /\ [][NextEpisodeRequests]_vars

\* --------------------------------- updateShowWatchStatusForNewContent

\* The profileIds lists a call is given.
ProfileLists == {<<1>>, <<10>>, <<1, 10>>, <<10, 1>>}

NewContentFrame == <<hier, seasonWS, episodeWS, cache, tx, last, nops, upd,
                     showRows, seasonNumber, loader, sessions, emitted, pending, calls,
                     movieRows, movieWS, tokenOf>>

\* Show.getWatchStatus(profileId, showId): the stored show-level status of
\* the profile, null ("NONE") when the profile has no association.
ShowGetWatchStatus(p, sh) == StatusOf(showWS, <<p, sh>>)

\* The for...of loop moves to the next profile, or the call returns.
NextProfile(job) ==
    [job EXCEPT !.queue = Tail(job.queue),
                !.pc = IF Len(job.queue) > 1 THEN "check" ELSE "done",
                !.p = IF Len(job.queue) > 1 THEN job.queue[2] ELSE 0,
                !.seen = "NONE"]

\* updateShowWatchStatusForNewContent(sh, profileIds) is called.
NewContentStarts(j, sh, profileIds) ==
    /\ jobs[j].pc = "idle"
    /\ \A i \in Jobs : i < j => jobs[i].pc # "idle"
    /\ jobs' = [jobs EXCEPT ![j] = [NoJob EXCEPT !.pc = "check", !.id = sh,
                                                !.p = Head(profileIds), !.queue = profileIds]]
    /\ UNCHANGED <<NewContentFrame, showWS>>

\* const watchStatus = await Show.getWatchStatus(...), and the test
\* watchStatus === 'WATCHED'.
NewContentChecks(j) ==
    /\ jobs[j].pc = "check"
    /\ LET watchStatus == ShowGetWatchStatus(jobs[j].p, jobs[j].id) IN
         jobs' = [jobs EXCEPT ![j] = IF watchStatus = "WATCHED"
                                     THEN [jobs[j] EXCEPT !.pc = "write", !.seen = watchStatus]
                                     ELSE NextProfile(jobs[j])]
    /\ UNCHANGED <<NewContentFrame, showWS>>

\* await Show.updateWatchStatus(profileId, showId, 'WATCHING').
NewContentWrites(j) ==
    /\ jobs[j].pc = "write"
    /\ showWS' = SetStatus(showWS, {<<jobs[j].p, jobs[j].id>>}, "WATCHING")
    /\ jobs' = [jobs EXCEPT ![j] = NextProfile(jobs[j])]
    /\ UNCHANGED NewContentFrame

NextNewContent ==
    \/ \E j \in Jobs, sh \in Shows, profileIds \in ProfileLists :
          NewContentStarts(j, sh, profileIds)
    \/ \E j \in Jobs : NewContentChecks(j)
    \/ \E j \in Jobs : NewContentWrites(j)
    \/ \E p \in Profiles, sh \in Shows, st \in Status : UpdateShowWatchStatus(p, sh, st, FALSE)

SpecNewContent == Init /\ [][NextNewContent]_vars

\* ------------------------------- Season: the failures of the store calls

\* Season.updateWatchStatus: the UPDATE fails inside the try; the catch
\* throws DatabaseError.
SeasonUpdateWatchStatusFails(p, s, st) ==
    /\ nops < MaxOps
    /\ tx.pc = "idle"
    /\ last' = Done("Season.updateWatchStatus", p, s, st, FALSE, "DatabaseError", NoVal)
    /\ nops' = nops + 1
    /\ UNCHANGED <<bg, hier, store, cache, tx, upd>>

\* Season.updateWatchStatusByEpisode: the SELECT or the UPDATE fails inside
\* the try (the season row is not written); the catch throws DatabaseError.
SeasonUpdateWatchStatusByEpisodeFails(p, s) ==
    /\ nops < MaxOps
    /\ tx.pc = "idle"
    /\ last' = Done("Season.updateWatchStatusByEpisode", p, s, "NONE", FALSE, "DatabaseError", NoVal)
    /\ nops' = nops + 1
    /\ UNCHANGED <<bg, hier, store, cache, tx, upd>>

\* Season.updateAllWatchStatuses: await pool.getConnection() rejects.  The
\* call stands before the try, so the driver's error is what the caller
\* gets.
SeasonUpdateAllGetConnectionFails(p, s, st) ==
    /\ nops < MaxOps
    /\ tx.pc = "idle"
    /\ last' = Done("Season.updateAllWatchStatuses", p, s, st, TRUE, "DriverError",
                    TxEnd("none", "connect"))
    /\ nops' = nops + 1
    /\ UNCHANGED <<bg, hier, store, cache, tx, upd>>

\* Season.updateAllWatchStatuses: connection.beginTransaction() fails
\* inside the try: catch, rollback, DatabaseError, release.
SeasonUpdateAllBeginFails(p, s, st) ==
    /\ nops < MaxOps
    /\ tx.pc = "idle"
    /\ last' = Done("Season.updateAllWatchStatuses", p, s, st, TRUE, "DatabaseError",
                    TxEnd("rollback", "begin"))
    /\ nops' = nops + 1
    /\ UNCHANGED <<bg, hier, store, cache, tx, upd>>

\* A statement or the commit fails and connection.rollback() in the catch
\* block fails too (the connection is lost): its error leaves the catch
\* block in place of the DatabaseError; the transaction ends with the
\* connection, its writes undone.
SeasonUpdateAllRollbackFails ==
    /\ tx.kind = "season" /\ tx.pc \in {"season", "episodes", "commit"}
    /\ last' = Done("Season.updateAllWatchStatuses", tx.p, tx.id, tx.st, TRUE, "DriverError",
                    TxEnd("none", tx.pc))
    /\ tx' = IdleTx
    /\ UNCHANGED <<bg, hier, store, cache, nops, upd>>

NextSeasonFailures ==
    \/ \E p \in Profiles, s \in Seasons, st \in Status : SeasonUpdateWatchStatus(p, s, st)
    \/ \E p \in Profiles, s \in Seasons, st \in Status : SeasonUpdateWatchStatusFails(p, s, st)
    \/ \E p \in Profiles, s \in Seasons : SeasonUpdateWatchStatusByEpisode(p, s)
    \/ \E p \in Profiles, s \in Seasons : SeasonUpdateWatchStatusByEpisodeFails(p, s)
    \/ \E p \in Profiles, s \in Seasons, st \in Status : SeasonUpdateAllBegin(p, s, st)
    \/ \E p \in Profiles, s \in Seasons, st \in Status : SeasonUpdateAllGetConnectionFails(p, s, st)
    \/ \E p \in Profiles, s \in Seasons, st \in Status : SeasonUpdateAllBeginFails(p, s, st)
    \/ SeasonUpdateAllSeasonStmt
    \/ SeasonUpdateAllEpisodeStmt
    \/ SeasonUpdateAllCommit
    \/ SeasonUpdateAllCatch
    \/ SeasonUpdateAllRollbackFails

SpecSeasonFailures == Init /\ [][NextSeasonFailures]_vars

\* ------------------------------------ cached reads while a show is loaded

NextLoaderReads ==
    \/ \E p \in Profiles, sh \in Shows : AddShowToFavorites(p, sh)
    \/ \E k \in pending : EpisodeFavoriteLands(k)
    \/ \E p \in Profiles : GetShowsForProfile(p)
    \/ \E p \in Profiles, sh \in Shows : GetShowDetailsForProfile(p, sh)
    \/ LoaderFetchSeason
    \/ LoaderSaveSeason
    \/ LoaderSaveSeasonFavorite
    \/ LoaderSaveEpisode
    \/ LoaderSaveEpisodeFavorite
    \/ LoaderDelay
    \/ LoaderFails
    \/ LoaderNotifyRead
    \/ LoaderNotifyFails
    \/ LoaderNotifyEmit

SpecLoaderReads == InitNewContent /\ [][NextLoaderReads]_vars

\* ------------------------- favorites requests while a show is being loaded

NextLoaderRaces ==
    \/ \E p \in Profiles, sh \in Shows : AddShowToFavorites(p, sh)
    \/ \E p \in Profiles, sh \in Shows : RemoveShowFromFavorites(p, sh)
    \/ \E k \in pending : EpisodeFavoriteLands(k)
    \/ LoaderFetchSeason
    \/ LoaderSaveSeason
    \/ LoaderSaveSeasonFavorite
    \/ LoaderSaveEpisode
    \/ LoaderSaveEpisodeFavorite
    \/ LoaderDelay
    \/ LoaderFails
    \/ LoaderNotifyRead
    \/ LoaderNotifyFails
    \/ LoaderNotifyEmit

SpecLoaderRaces == InitNewContent /\ [][NextLoaderRaces]_vars

\* ------------------ addShowToFavorites requests for a show not yet stored

\* Request j: Show.findByTMDBId(showId) finds no row, so the request will
\* take favoriteNewShow.  Requests are numbered in the order of their
\* arrival.
AddShowRequestChecks(j, p, sh) ==
    /\ jobs[j].pc = "idle"
    /\ \A i \in Jobs : i < j => jobs[i].pc # "idle"
    /\ ~ExistingShow(sh)
    /\ jobs' = [jobs EXCEPT ![j] = [NoJob EXCEPT !.pc = "new", !.p = p, !.id = sh]]
    /\ UNCHANGED <<hier, store, cache, tx, last, nops, upd, showRows, seasonNumber, loader,
                   sessions, emitted, pending, calls, movieRows, movieWS, tokenOf>>

\* Request j runs favoriteNewShow: the show is saved under its external id
\* (one row for one external id), the favorite is saved, the cache is
\* invalidated and the loader is started.
AddShowRequestPersists(j) ==
    /\ jobs[j].pc = "new"
    /\ nops < MaxFavorites
    /\ tx.pc = "idle"
    /\ \E p \in Profiles, sh \in Shows, resp \in ProviderResponses :
          /\ p = jobs[j].p /\ sh = jobs[j].id
          /\ FavoriteNewShow(p, sh, resp)
    /\ jobs' = [jobs EXCEPT ![j].pc = "done"]
    /\ nops' = nops + 1
    /\ upd' = NoUpd
    /\ UNCHANGED <<tx, sessions, emitted, calls, movieRows, movieWS, tokenOf>>

NextAddRaces ==
    \/ \E j \in Jobs, p \in Profiles, sh \in Shows : AddShowRequestChecks(j, p, sh)
    \/ \E j \in Jobs : AddShowRequestPersists(j)
    \/ LoaderFetchSeason
    \/ LoaderSaveSeason
    \/ LoaderSaveSeasonFavorite
    \/ LoaderSaveEpisode
    \/ LoaderSaveEpisodeFavorite
    \/ LoaderDelay
    \/ LoaderFails
    \/ LoaderNotifyRead
    \/ LoaderNotifyFails
    \/ LoaderNotifyEmit

SpecAddRaces == InitNewContent /\ [][NextAddRaces]_vars

\* -------------------------- getShowRecommendations and getSimilarShows

\* `recommendations_${showId}` and `similarShows_${showId}`
RECOMMENDATIONS(sh) == <<"recommendations_">> \o Digits(sh)
SIMILAR_SHOWS(sh)   == <<"similarShows_">> \o Digits(sh)

\* tmdbService.getShowRecommendations / getSimilarShows after
\* filterUSOrEnglishShows: the provider names the other shows.
ProviderRecommends(sh) == Shows \ {sh}

\* The producer of both methods: each show of the provider's answer with
\* inFavorites: userShowIds.has(rec.id), userShows being the shows of the
\* profile.
WithInFavorites(p, recs) == [rec \in recs |-> <<p, rec>> \in DOMAIN showWS]

\* getOrSet on the key with the producer of either method, over cache c.
RecommendationsRead(c, key, p, sh) ==
    IF CacheHit(c, key) THEN c[key] ELSE WithInFavorites(p, ProviderRecommends(sh))

\* getShowRecommendations(p, sh): Show.findById and assertExists, then
\* getOrSet on `recommendations_${showId}`.
GetShowRecommendations(p, sh) ==
    /\ nops < MaxRequests
    /\ IF sh \notin showRows
       THEN /\ cache' = cache
            /\ last' = Done("getShowRecommendations", p, sh, "NONE", FALSE, "NotFoundError", NoVal)
       ELSE /\ cache' = CacheSet(cache, RECOMMENDATIONS(sh),
                                 RecommendationsRead(cache, RECOMMENDATIONS(sh), p, sh))
            /\ last' = Done("getShowRecommendations", p, sh, "NONE", FALSE, "ok",
                            RecommendationsRead(cache, RECOMMENDATIONS(sh), p, sh))
    /\ nops' = nops + 1
    /\ UNCHANGED <<bg, hier, store, tx, upd>>

\* getSimilarShows(p, sh): the same on `similarShows_${showId}`.
GetSimilarShows(p, sh) ==
    /\ nops < MaxRequests
    /\ IF sh \notin showRows
       THEN /\ cache' = cache
            /\ last' = Done("getSimilarShows", p, sh, "NONE", FALSE, "NotFoundError", NoVal)
       ELSE /\ cache' = CacheSet(cache, SIMILAR_SHOWS(sh),
                                 RecommendationsRead(cache, SIMILAR_SHOWS(sh), p, sh))
            /\ last' = Done("getSimilarShows", p, sh, "NONE", FALSE, "ok",
                            RecommendationsRead(cache, SIMILAR_SHOWS(sh), p, sh))
    /\ nops' = nops + 1
    /\ UNCHANGED <<bg, hier, store, tx, upd>>

NextRecommendations ==
    \/ \E p \in Profiles, sh \in Shows : GetShowRecommendations(p, sh)
    \/ \E p \in Profiles, sh \in Shows : GetSimilarShows(p, sh)
    \/ \E p \in Profiles, sh \in Shows : AddShowToFavorites(p, sh)
    \/ \E p \in Profiles, sh \in Shows : RemoveShowFromFavorites(p, sh)
    \/ \E k \in pending : EpisodeFavoriteLands(k)

SpecRecommendations == Init /\ [][NextRecommendations]_vars

\* ------------------------------------------- MoviesService (moviesService)

MovieFrame == <<hier, store, tx, upd, showRows, seasonNumber, loader, sessions, emitted,
                pending, calls, jobs, tokenOf>>

\* PROFILE_KEYS.movies(profileId) and PROFILE_KEYS.recentUpcomingMovies(profileId)
PROFILE_MOVIES(p) == <<"profile_">> \o Digits(p) \o <<"_", "movies">>
PROFILE_RECENT_UPCOMING_MOVIES(p) ==
    <<"profile_">> \o Digits(p) \o <<"_", "recent_upcoming_movies">>

\* CacheService.invalidateProfileMovies(profileId): the movie keys of the
\* profile are removed.
InvalidateProfileMovies(c, p) ==
    Invalidate(Invalidate(c, PROFILE_MOVIES(p)), PROFILE_RECENT_UPCOMING_MOVIES(p))

\* Movie.getRecentMovieReleasesForProfile and
\* Movie.getUpcomingMovieReleasesForProfile over the table ws, every movie
\* of the model being a recent release.
RecentUpcomingMovies(ws, p) ==
    [recentMovies |-> {m \in Movies : <<p, m>> \in DOMAIN ws}, upcomingMovies |-> {}]

\* The value getRecentUpcomingMoviesForProfile returns over cache c and
\* table ws: getOrSet on the recent/upcoming key.
RecentUpcomingRead(c, ws, p) ==
    IF CacheHit(c, PROFILE_RECENT_UPCOMING_MOVIES(p))
    THEN c[PROFILE_RECENT_UPCOMING_MOVIES(p)]
    ELSE RecentUpcomingMovies(ws, p)

\* The cache after that call.
RecentUpcomingCached(c, ws, p) ==
    CacheSet(c, PROFILE_RECENT_UPCOMING_MOVIES(p), RecentUpcomingRead(c, ws, p))

\* getRecentUpcomingMoviesForProfile(p)
GetRecentUpcomingMoviesForProfile(p) ==
    /\ nops < MaxRequests
    /\ cache' = RecentUpcomingCached(cache, movieWS, p)
    /\ last' = Done("getRecentUpcomingMoviesForProfile", p, 0, "NONE", FALSE, "ok",
                    RecentUpcomingRead(cache, movieWS, p))
    /\ nops' = nops + 1
    /\ UNCHANGED <<MovieFrame, movieRows, movieWS>>

\* favoriteExistingMovie: saveFavorite, invalidateProfileMovieCache, then
\* the reads.
FavoriteExistingMovie(p, m) ==
    /\ movieRows' = movieRows
    /\ movieWS' = InsertIgnore(movieWS, <<p, m>>)
    /\ cache' = RecentUpcomingCached(InvalidateProfileMovies(cache, p), movieWS', p)
    /\ last' = Done("addMovieToFavorites", p, m, "NONE", FALSE, "ok",
                    RecentUpcomingRead(InvalidateProfileMovies(cache, p), movieWS', p))

\* favoriteNewMovie: getMovieDetails, save, saveFavorite, the reads, and
\* invalidateProfileMovieCache after them.
FavoriteNewMovie(p, m) ==
    /\ movieRows' = movieRows \cup {m}
    /\ movieWS' = InsertIgnore(movieWS, <<p, m>>)
    /\ cache' = InvalidateProfileMovies(RecentUpcomingCached(cache, movieWS', p), p)
    /\ last' = Done("addMovieToFavorites", p, m, "NONE", TRUE, "ok",
                    RecentUpcomingRead(cache, movieWS', p))

\* addMovieToFavorites(p, m): Movie.findByTMDBId decides the path.
AddMovieToFavorites(p, m) ==
    /\ nops < MaxRequests
    /\ IF m \in movieRows THEN FavoriteExistingMovie(p, m) ELSE FavoriteNewMovie(p, m)
    /\ nops' = nops + 1
    /\ UNCHANGED MovieFrame

\* removeMovieFromFavorites(p, m): NotFoundError for an unknown movie, else
\* removeFavorite, invalidateProfileMovieCache and the read.
RemoveMovieFromFavorites(p, m) ==
    /\ nops < MaxRequests
    /\ IF m \notin movieRows
       THEN /\ UNCHANGED <<movieWS, cache>>
            /\ last' = Done("removeMovieFromFavorites", p, m, "NONE", FALSE, "NotFoundError", NoVal)
       ELSE /\ movieWS' = DeleteRows(movieWS, p, {m})
            /\ cache' = RecentUpcomingCached(InvalidateProfileMovies(cache, p), movieWS', p)
            /\ last' = Done("removeMovieFromFavorites", p, m, "NONE", FALSE, "ok",
                            RecentUpcomingRead(InvalidateProfileMovies(cache, p), movieWS', p))
    /\ nops' = nops + 1
    /\ UNCHANGED <<MovieFrame, movieRows>>

NextMovies ==
    \/ \E p \in Profiles : GetRecentUpcomingMoviesForProfile(p)
    \/ \E p \in Profiles, m \in Movies : AddMovieToFavorites(p, m)
    \/ \E p \in Profiles, m \in Movies : RemoveMovieFromFavorites(p, m)

SpecMovies == Init /\ [][NextMovies]_vars

\* ------------------------------------------------------------- claims

IsOp(op) == last.op = op

\* C1: after Season.updateWatchStatusByEpisode(p, s) on a season with at
\* least one episode association of p, the stored season status is S when
\* every such association has status S, and WATCHING when two or more
\* distinct statuses are present.
C1_RecomputeAggregatesEpisodes ==
    (IsOp("Season.updateWatchStatusByEpisode") /\ JoinedStatuses(last.p, last.id) # {}) =>
        /\ \A S \in Status :
              JoinedStatuses(last.p, last.id) = {S} => StatusOf(seasonWS, <<last.p, last.id>>) = S
        /\ (\E a, b \in JoinedStatuses(last.p, last.id) : a # b) =>
              StatusOf(seasonWS, <<last.p, last.id>>) = "WATCHING"

\* C1 witness: a recompute has run on a season whose episodes are partly
\* watched, and one on a season whose episodes are all watched.
C1_Witness ==
    /\ IsOp("Season.updateWatchStatusByEpisode")
    /\ JoinedStatuses(last.p, last.id) = {"WATCHED", "NOT_WATCHED"}
    /\ seasonWS[<<last.p, last.id>>] = "WATCHING"

\* C2: Season.updateWatchStatusByEpisode on a season for which the profile
\* has no episode association leaves the stored season status unchanged.
C2_NoEpisodesNoChange ==
    [][\A p \in Profiles, s \in Seasons :
          (SeasonUpdateWatchStatusByEpisode(p, s) /\ JoinedStatuses(p, s) = {}) =>
              seasonWS' = seasonWS]_vars

\* A step of Season.updateAllWatchStatuses that ends the transaction.
SeasonUpdateAllEnds == tx.kind = "season" /\ tx'.pc = "idle"

\* The associations the cascade of (p, s) is about.
CascadeEpisodeKeys(p, s) == {k \in DOMAIN episodeWS : k[1] = p /\ k[2] \in EpisodesOfSeason(s)}

\* C5: Season.updateAllWatchStatuses is all-or-nothing.  No step of an open
\* cascade other than its commit changes an association; the step that ends
\* it with an error leaves every association as it was; the commit leaves
\* the season row and every episode association of the profile under the
\* season with the new status.
C5_SeasonCascadeAtomic ==
    [][/\ (tx.kind = "season" /\ tx' # tx /\ ~(SeasonUpdateAllEnds /\ last'.val.end = "commit"))
            => UNCHANGED store
       /\ (SeasonUpdateAllEnds /\ last'.val.end = "commit")
            => /\ seasonWS'[<<tx.p, tx.id>>] = tx.st
               /\ \A k \in CascadeEpisodeKeys(tx.p, tx.id) : episodeWS'[k] = tx.st]_vars

\* C5 witness: the episode statement failed after the season row had been
\* written, and the handler has thrown.
C5_Witness ==
    /\ IsOp("Season.updateAllWatchStatuses")
    /\ last.res = "DatabaseError" /\ last.val.at = "episodes"
    /\ last.st # StatusOf(seasonWS, <<last.p, last.id>>)
    /\ CascadeEpisodeKeys(last.p, last.id) # {}

\* C7: a season status update, with or without cascade, returns true
\* exactly when the profile's season-level row exists.
C7_UpdatedIffSeasonRow ==
    ((IsOp("Season.updateWatchStatus") \/ IsOp("Season.updateAllWatchStatuses"))
        /\ last.res \in {"true", "false"}) =>
        ((last.res = "true") <=> (<<last.p, last.id>> \in DOMAIN seasonWS))

\* The step on which updateShowWatchStatus returns or throws.
ShowUpdateReturns ==
    /\ last'.op = "updateShowWatchStatus"
    /\ \/ tx.kind = "show" /\ tx.pc # "idle" /\ tx'.pc = "idle"
       \/ tx.pc = "idle" /\ tx' = tx /\ nops' # nops

\* The associations of profile p under show sh.
ShowSeasonKeys(p, sh) == {k \in DOMAIN seasonWS : k[1] = p /\ k[2] \in SeasonsOfShow(sh)}
ShowEpisodeKeys(p, sh) == {k \in DOMAIN episodeWS : k[1] = p /\ k[2] \in EpisodesOfShow(sh)}

\* Table tbl is the same before and after the step outside the keys in ks.
SameOutside(tbl, tblNext, ks) ==
    /\ DOMAIN tblNext = DOMAIN tbl
    /\ \A k \in DOMAIN tbl \ ks : tblNext[k] = tbl[k]

\* C3: when updateShowWatchStatus(P, show, S, recursive = true) succeeds,
\* the show-level association of P, every season-level and every
\* episode-level association of P under the show have status S, and no
\* association of another profile or of another show has changed.
C3_RecursiveUpdateSetsHierarchy ==
    [][(ShowUpdateReturns /\ last'.flag /\ last'.res = "ok") =>
          LET p == last'.p  sh == last'.id  S == last'.st IN
            /\ showWS'[<<p, sh>>] = S
            /\ \A k \in ShowSeasonKeys(p, sh) : seasonWS'[k] = S
            /\ \A k \in ShowEpisodeKeys(p, sh) : episodeWS'[k] = S
            /\ SameOutside(showWS, showWS', {<<p, sh>>})
            /\ SameOutside(seasonWS, seasonWS', ShowSeasonKeys(p, sh))
            /\ SameOutside(episodeWS, episodeWS', ShowEpisodeKeys(p, sh))]_vars

\* C3 witness: a recursive update has succeeded on a show with season and
\* episode associations, while the same profile has another show and
\* another profile has the same show, both in another status.
C3_Witness ==
    /\ IsOp("updateShowWatchStatus") /\ last.flag /\ last.res = "ok"
    /\ ShowSeasonKeys(last.p, last.id) # {} /\ ShowEpisodeKeys(last.p, last.id) # {}
    /\ \A k \in ShowEpisodeKeys(last.p, last.id) : episodeWS[k] = last.st
    /\ \E k \in DOMAIN showWS : k[1] = last.p /\ k[2] # last.id /\ showWS[k] # last.st
    /\ \E k \in DOMAIN episodeWS :
          k[1] # last.p /\ k[2] \in EpisodesOfShow(last.id) /\ episodeWS[k] # last.st

\* The step on which the cascade of a show commits.
ShowUpdateCommits == tx.kind = "show" /\ tx.pc = "commit" /\ tx'.pc = "idle" /\ last'.val.end = "commit"

\* C4: the recursive show update is all-or-nothing.  While the cascade is
\* open, and on the step on which one of its statements fails, no
\* association changes (the show-level row keeps its pre-update status);
\* and whenever a show-level association changes, every season-level and
\* episode-level association of the profile under the show has the new
\* status in the same state.
C4_ShowCascadeAtomic ==
    [][/\ (tx.kind = "show" /\ tx.pc # "idle" /\ ~ShowUpdateCommits) => UNCHANGED store
       /\ \A k \in DOMAIN showWS :
             (tx.kind = "show" /\ showWS'[k] # showWS[k]) =>
                /\ \A d \in ShowSeasonKeys(k[1], k[2]) : seasonWS'[d] = showWS'[k]
                /\ \A d \in ShowEpisodeKeys(k[1], k[2]) : episodeWS'[d] = showWS'[k]]_vars

\* C4 witness: the episode-level statement failed after the show-level and
\* season-level rows had been written with a status they did not have.
C4_Witness ==
    /\ IsOp("updateShowWatchStatus") /\ last.res = "StorageError"
    /\ last.val.at = "episodes"
    /\ showWS[<<last.p, last.id>>] # last.st
    /\ ShowEpisodeKeys(last.p, last.id) # {}

\* C6: updateShowWatchStatus for a show the profile has not favorited, with
\* the show-level UPDATE matching no row, throws the not-updated error
\* (BadRequestError), changes no association and leaves the cache as it was.
C6_NotFavoritedFails ==
    [][(ShowUpdateReturns /\ <<last'.p, last'.id>> \notin DOMAIN showWS
            /\ last'.res # "StorageError") =>
          /\ last'.res = "BadRequestError"
          /\ UNCHANGED store
          /\ cache' = cache]_vars

\* C6 witness: the update of a show that is not in the profile's favorites
\* has thrown while the profile's show list was cached.
C6_Witness ==
    /\ IsOp("updateShowWatchStatus") /\ last.res = "BadRequestError"
    /\ <<last.p, last.id>> \notin DOMAIN showWS
    /\ PROFILE_SHOWS(last.p) \in DOMAIN cache

\* C8: once updateShowWatchStatus(P, show, S, ...) has succeeded, a later
\* getShowsForProfile(P) returns S for the show, not the status it had
\* before; and the update leaves every cache entry of another profile as
\* it was.
C8_ShowListFreshAfterUpdate ==
    [][/\ (last'.op = "getShowsForProfile" /\ nops' # nops /\ upd.p = last'.p) =>
             last'.val[upd.show] = upd.st
       /\ (ShowUpdateReturns /\ last'.res = "ok") =>
             \A q \in Profiles \ {last'.p} : \A k \in KeysOfProfile(q) :
                /\ k \in DOMAIN cache <=> k \in DOMAIN cache'
                /\ k \in DOMAIN cache => cache'[k] = cache[k]]_vars

\* C8 witness: the show list was cached, an update then changed the status
\* of one of its shows, and the list has been read again.
C8_Witness ==
    /\ IsOp("getShowsForProfile") /\ upd.p = last.p
    /\ upd.listed /\ upd.old # upd.st
    /\ last.val[upd.show] = upd.st

\* C9: invalidateProfileCache(P) removes every cache entry of profile P
\* and no cache entry of any other profile.
C9_InvalidateOnlyOwnProfile ==
    [][\A p \in Profiles :
          InvalidateProfileCache(p) =>
             /\ \A k \in KeysOfProfile(p) : k \notin DOMAIN cache'
             /\ \A q \in Profiles \ {p} : \A k \in KeysOfProfile(q) :
                   k \in DOMAIN cache => k \in DOMAIN cache']_vars

\* C10: once updateShowWatchStatus(P, show, S, ...) has succeeded, a later
\* getShowDetailsForProfile(P, show) returns the show with status S, not a
\* value cached before the update.
C10_ShowDetailsFreshAfterUpdate ==
    (IsOp("getShowDetailsForProfile") /\ upd.p = last.p /\ upd.show = last.id) =>
        last.val.status = upd.st

\* C11: once updateShowWatchStatus(P, show, ...) has succeeded, a later
\* getEpisodesForProfile(P) returns the next-unwatched episodes as the store
\* has them, not a list cached before the update.
C11_UnwatchedFreshAfterUpdate ==
    (IsOp("getEpisodesForProfile") /\ upd.p = last.p) =>
        last.val.nextUnwatchedEpisodes = EpisodesView(last.p).nextUnwatchedEpisodes

\* Two callers that asked for the same key, both missed it and both
\* returned with no update request made since the earlier of them called.
SameMiss(c, d) ==
    /\ c # d
    /\ calls[c].pc = "done" /\ calls[d].pc = "done"
    /\ ~calls[c].hit /\ ~calls[d].hit
    /\ calls[c].p = calls[d].p
    /\ calls[c].clean /\ calls[d].clean /\ calls[c].epoch = calls[d].epoch

\* Every caller that missed the key of profile p did so after the last
\* update request: no call for the key has a store write between its
\* lookup and its return.
NoStraddler(p) ==
    \A e \in Callers :
        (calls[e].p = p /\ ~calls[e].hit /\ calls[e].pc \in {"producing", "produced", "done"})
            => calls[e].epoch = nops

\* C12: getOrSet on a key that is present returns the cached value without
\* invoking the producer and leaves the cache as it is; callers that miss
\* the same key with no store write in between all return the same value,
\* and the entry the cache then holds for the key is that value; when the
\* producer fails the caller gets the failure and the cache is unchanged.
C12_GetOrSet ==
    [][/\ \A c \in Callers, p \in Profiles :
             (GetOrSetCall(c, p) /\ PROFILE_SHOWS(p) \in DOMAIN cache) =>
                /\ calls'[c].pc = "done" /\ ~calls'[c].invoked
                /\ calls'[c].val = cache[PROFILE_SHOWS(p)]
                /\ cache' = cache
       /\ \A c, d \in Callers :
             SameMiss(c, d)' =>
                /\ calls'[c].val = calls'[d].val
                /\ \A q \in Profiles :
                      (calls'[c].p = q /\ NoStraddler(q)' /\ PROFILE_SHOWS(q) \in DOMAIN cache') =>
                          cache'[PROFILE_SHOWS(q)] = calls'[c].val
       /\ \A c \in Callers :
             (calls[c].pc = "producing" /\ calls'[c].pc = "failed") => cache' = cache]_vars

\* C12 witness: two callers missed the same key at the same time, both
\* producers ran, and the cache holds the value both returned.
C12_Witness ==
    \E c, d \in Callers :
        /\ SameMiss(c, d)
        /\ calls[c].invoked /\ calls[d].invoked
        /\ nops > 0
        /\ PROFILE_SHOWS(calls[c].p) \in DOMAIN cache
        /\ cache[PROFILE_SHOWS(calls[c].p)] = calls[c].val

\* The provider's seasons with a positive number, as positions of resp.
ProviderValid(resp) == {i \in 1..Len(resp) : resp[i].season_number > 0}

\* The loop of the loader has ended without an error.
LoaderCompleted == loader.pc \in {"notifyRead", "notifyEmit", "done"}

\* C13: when a loader run has completed without error, the seasons persisted
\* for the show are exactly the provider's seasons with season_number > 0
\* (none with number 0), each with as many episodes as the provider
\* reported, and the initiating profile has an association for every one of
\* these seasons and episodes.
C13_LoaderPersistsValidSeasons ==
    LoaderCompleted =>
        /\ Cardinality(SeasonsOfShow(loader.show)) = Cardinality(ProviderValid(loader.resp))
        /\ \A i \in ProviderValid(loader.resp) :
              \E s \in SeasonsOfShow(loader.show) :
                  /\ seasonNumber[s] = loader.resp[i].season_number
                  /\ Cardinality(EpisodesOfSeason(s)) = loader.resp[i].episodes
        /\ \A s \in SeasonsOfShow(loader.show) :
              /\ seasonNumber[s] > 0
              /\ <<loader.p, s>> \in DOMAIN seasonWS
              /\ \A e \in EpisodesOfSeason(s) : <<loader.p, e>> \in DOMAIN episodeWS

C13_Witness ==
    /\ loader.pc = "done"
    /\ Len(loader.resp) > Cardinality(ProviderValid(loader.resp))
    /\ Cardinality(EpisodesOfShow(loader.show)) = 2

\* C14: a loader run emits at most one 'updateShowFavorite' message; it is
\* emitted at the end of the run, exactly when a session of the account
\* owning the initiating profile is connected at that moment, to that
\* session, with a show view holding every valid provider season and its
\* episodes; once the run is over nothing is emitted any more.
C14_NotifyAtMostOnce ==
    [][/\ Len(emitted') <= loader'.runs
       /\ emitted' # emitted =>
             /\ loader.pc = "notifyEmit" /\ loader'.pc = "done"
             /\ AccountOf(loader.p) \in sessions
             /\ emitted' = Append(emitted, [to |-> AccountOf(loader.p), show |-> loader.view])
             /\ DOMAIN loader.view.seasons =
                   {loader.resp[i].season_number : i \in ProviderValid(loader.resp)}
             /\ \A i \in ProviderValid(loader.resp) :
                   loader.view.seasons[loader.resp[i].season_number] = loader.resp[i].episodes
       /\ (loader.pc = "notifyEmit" /\ loader'.pc = "done" /\ AccountOf(loader.p) \in sessions)
             => emitted' # emitted
       /\ (loader.pc = "done" /\ loader'.runs = loader.runs) => emitted' = emitted]_vars

C14_Witness ==
    /\ Len(emitted) = 1
    /\ emitted[1].to = AccountOf(loader.p)
    /\ DOMAIN emitted[1].show.seasons # {}
    /\ Cardinality(sessions) = 2

\* C15: when a call of the loader's loop fails, the run ends there: the step
\* changes neither the hierarchy nor the associations nor the last result,
\* nothing is emitted by it or after it, no season is fetched or persisted
\* afterwards, and no season is fetched a second time.
C15_LoaderFailureStops ==
    [][/\ (loader.pc # "failed" /\ loader'.pc = "failed") =>
             /\ hier' = hier /\ store' = store /\ seasonNumber' = seasonNumber
             /\ emitted' = emitted /\ last' = last
             /\ loader' = [loader EXCEPT !.pc = "failed"]
       /\ (loader.pc = "failed" /\ loader'.runs = loader.runs) =>
             /\ loader' = loader
             /\ hier' = hier /\ seasonNumber' = seasonNumber
             /\ emitted' = emitted
       /\ (loader'.pc = "fetch" /\ loader' # loader /\ loader'.runs = loader.runs) =>
             Len(loader'.queue) < Len(loader.queue)]_vars

C15_Witness ==
    /\ loader.pc = "failed"
    /\ \E s \in SeasonsOfShow(loader.show) : <<loader.p, s>> \in DOMAIN seasonWS
    /\ Len(loader.queue) = 1
    /\ emitted = <<>>
    /\ IsOp("addShowToFavorites") /\ last.res = "ok"

\* C16: addShowToFavorites for a show that is not in the store persists the
\* show, creates the profile's show association, starts exactly one loader
\* run and returns a show without seasons while no season is persisted yet;
\* no 'updateShowFavorite' is emitted before that result is returned.
C16_NewShowReturnsBeforeLoad ==
    [][/\ (IsOp("addShowToFavorites")' /\ nops' # nops /\ last'.res = "ok" /\ ~last'.flag) =>
             /\ last'.id \notin showRows /\ last'.id \in showRows'
             /\ <<last'.p, last'.id>> \in DOMAIN showWS'
             /\ loader'.runs = loader.runs + 1
             /\ loader'.p = last'.p /\ loader'.show = last'.id
             /\ loader'.pc \in {"fetch", "notifyRead"}
             /\ DOMAIN last'.val.favoritedShow.seasons = {}
             /\ hier' = hier
             /\ emitted' = emitted
       /\ emitted' # emitted => loader.returned]_vars

C16_Witness ==
    /\ IsOp("addShowToFavorites") /\ last.res = "ok" /\ ~last.flag
    /\ loader.pc = "done"
    /\ Len(emitted) = 1
    /\ SeasonsOfShow(loader.show) # {}

\* C18: an addShowToFavorites for the show whose load has completed persists
\* no season and no episode and starts no second load: the show keeps as
\* many seasons as the provider's single answer had valid ones.
C18_SecondFavoriteNoDuplicates ==
    [][(IsOp("addShowToFavorites")' /\ nops' # nops /\ loader.pc = "done"
           /\ last'.id = loader.show) =>
             /\ hier' = hier /\ seasonNumber' = seasonNumber
             /\ loader' = loader
             /\ Cardinality(SeasonsOfShow(loader.show)') = Cardinality(ProviderValid(loader.resp))]_vars

C18_Witness ==
    /\ IsOp("addShowToFavorites") /\ last.flag
    /\ last.id = loader.show
    /\ loader.pc = "done"
    /\ Cardinality(SeasonsOfShow(loader.show)) = 2

\* C17: when addShowToFavorites returns for a show that was in the store,
\* the profile has an association for the show, for every persisted season
\* of the show and for every persisted episode of these seasons.
C17_ExistingShowAttachedAtReturn ==
    [][(IsOp("addShowToFavorites")' /\ nops' # nops /\ last'.flag /\ last'.res = "ok") =>
          /\ <<last'.p, last'.id>> \in DOMAIN showWS'
          /\ \A s \in SeasonsOfShow(last'.id) : <<last'.p, s>> \in DOMAIN seasonWS'
          /\ \A e \in EpisodesOfShow(last'.id) : <<last'.p, e>> \in DOMAIN episodeWS']_vars

\* A step that marks nodes as favorites or runs in the background: a
\* favorite request, a saveFavorite, a loader step, an insert in flight.
MarkStep ==
    \/ nops' = nops
    \/ IsOp("addShowToFavorites")'
    \/ IsOp("Episode.saveFavorite")'
    \/ IsOp("Season.saveFavorite")'

\* The rows of table tbl are all still there, unchanged, in table tbl2.
RowsKept(tbl, tbl2) == \A k \in DOMAIN tbl : k \in DOMAIN tbl2 /\ tbl2[k] = tbl[k]

\* C19: a profile has one association per episode, season and show at most
\* (a table holds one row per profile and node); a step that marks a node
\* as favorite for a profile that has an association for it adds no row
\* and leaves the status of every existing association as it was.
C19_OneAssociationPerNode ==
    [][MarkStep =>
          /\ RowsKept(showWS, showWS')
          /\ RowsKept(seasonWS, seasonWS')
          /\ RowsKept(episodeWS, episodeWS')
          /\ IsOp("Episode.saveFavorite")' /\ nops' # nops /\ <<last'.p, last'.id>> \in DOMAIN episodeWS
                => episodeWS' = episodeWS
          /\ IsOp("Season.saveFavorite")' /\ nops' # nops /\ <<last'.p, last'.id>> \in DOMAIN seasonWS
                => seasonWS' = seasonWS]_vars

C19_Witness ==
    /\ IsOp("Episode.saveFavorite")
    /\ <<last.p, last.id>> \in DOMAIN episodeWS
    /\ episodeWS[<<last.p, last.id>>] = "WATCHED"

\* C20: a removeShowFromFavorites(P, show) that succeeds leaves P without an
\* association for the show, leaves no cache entry of P's namespace but the
\* episode lists it has just read, and returns episode lists equal to those
\* of the store after the deletion; for a show that does not exist it fails
\* with NotFoundError and changes neither the store nor the cache.
C20_RemoveFavorite ==
    [][(IsOp("removeShowFromFavorites")' /\ nops' # nops) =>
          IF last'.id \in showRows
          THEN /\ last'.res = "ok"
               /\ <<last'.p, last'.id>> \notin DOMAIN showWS'
               /\ \A key \in DOMAIN cache' :
                     StartsWith(key, ProfilePattern(last'.p)) => key = PROFILE_EPISODES(last'.p)
               /\ \A q \in Profiles : last'.p = q => last'.val.episodes = EpisodesView(q)'
          ELSE /\ last'.res = "NotFoundError"
               /\ store' = store /\ hier' = hier /\ showRows' = showRows
               /\ cache' = cache]_vars

C20_Witness ==
    /\ IsOp("removeShowFromFavorites") /\ last.res = "ok"
    /\ last.p = 1 /\ last.id = 1
    /\ last.val.episodes.recentEpisodes = {}
    /\ DOMAIN cache = {PROFILE_EPISODES(1)}
    /\ DOMAIN showWS = {}

\* C21: a show status request with recursive false, or without recursive, is
\* served by the show-level update alone: no cascade is opened and every
\* season-level and episode-level association is as before, as is every
\* show-level association but that of the profile and show.
C21_ShowOnlyUpdate ==
    [][\A p \in Profiles, sh \in Shows, st \in Status :
          (PutShowWatchStatus(p, sh, st, "omitted") \/ PutShowWatchStatus(p, sh, st, "false")) =>
              /\ seasonWS' = seasonWS
              /\ episodeWS' = episodeWS
              /\ tx' = tx
              /\ DOMAIN showWS' = DOMAIN showWS
              /\ \A k \in DOMAIN showWS : k # <<p, sh>> => showWS'[k] = showWS[k]
              /\ <<p, sh>> \in DOMAIN showWS => showWS'[<<p, sh>>] = st]_vars

C21_Witness ==
    /\ IsOp("updateShowWatchStatus") /\ ~last.flag /\ last.res = "ok"
    /\ last.st = "WATCHED"
    /\ showWS[<<last.p, last.id>>] = "WATCHED"
    /\ \E s \in SeasonsOfShow(last.id) :
          <<last.p, s>> \in DOMAIN seasonWS /\ seasonWS[<<last.p, s>>] = "NOT_WATCHED"
    /\ \E e \in EpisodesOfShow(last.id) :
          <<last.p, e>> \in DOMAIN episodeWS /\ episodeWS[<<last.p, e>>] = "NOT_WATCHED"

\* The statuses of the episodes of season s that profile p has.
EpisodeStatuses(p, s) ==
    {episodeWS[<<p, e>>] : e \in {e \in EpisodesOfSeason(s) : <<p, e>> \in DOMAIN episodeWS}}

\* C22: when every episode status request has written and recomputed its
\* season, the stored status of each season a request was about is the
\* one status its episodes all have, or WATCHING when they differ.
C22_SeasonFollowsEpisodes ==
    (\A j \in Jobs : jobs[j].pc \in {"idle", "done"}) =>
        \A j \in Jobs :
            (/\ jobs[j].pc = "done"
             /\ <<jobs[j].p, jobs[j].season>> \in DOMAIN seasonWS
             /\ EpisodeStatuses(jobs[j].p, jobs[j].season) # {}) =>
                seasonWS[<<jobs[j].p, jobs[j].season>>] =
                    IF Cardinality(EpisodeStatuses(jobs[j].p, jobs[j].season)) = 1
                    THEN CHOOSE st \in EpisodeStatuses(jobs[j].p, jobs[j].season) : TRUE
                    ELSE "WATCHING"

\* C23: a call of Season.updateWatchStatus, updateWatchStatusByEpisode or
\* updateAllWatchStatuses either returns normally (true, false, nothing)
\* or fails with DatabaseError, whatever step failed.
C23_SeasonFailuresAreDatabaseErrors ==
    (\/ IsOp("Season.updateWatchStatus")
     \/ IsOp("Season.updateWatchStatusByEpisode")
     \/ IsOp("Season.updateAllWatchStatuses")) =>
        last.res \in {"true", "false", "void", "DatabaseError"}

\* C24: an addShowToFavorites for a show not in the store that fails at the
\* provider or at the save of the show ends with the error and has written
\* no show row and no association and started no loader run (at the
\* provider it has not touched the cache either); one that succeeds has
\* its show row.
C24_NewShowFailureSurfaces ==
    [][(IsOp("addShowToFavorites")' /\ nops' # nops /\ ~last'.flag) =>
          /\ last'.res \in {"ProviderError", "BadRequestError"} =>
                /\ showRows' = showRows /\ hier' = hier /\ store' = store
                /\ loader' = loader
                /\ last'.val = NoVal
          /\ last'.res = "ProviderError" => cache' = cache
          /\ last'.res \notin {"ProviderError", "BadRequestError"} =>
                /\ last'.res = "ok"
                /\ last'.id \in showRows']_vars

C24_Witness ==
    /\ IsOp("addShowToFavorites") /\ last.res = "ProviderError"
    /\ last.id \notin showRows
    /\ PROFILE_EPISODES(last.p) \in DOMAIN cache
    /\ loader.pc = "idle"

\* C25: a getShowDetailsForProfile or getShowsForProfile of the initiating
\* profile made after the loader run has finished returns what the store
\* holds then, not a value cached while the show was partly loaded.
C25_ReadsFreshAfterLoad ==
    [][\A p \in Profiles, sh \in Shows :
          (/\ nops' # nops
           /\ loader.pc = "done" /\ loader.p = p /\ loader.show = sh
           /\ last'.p = p) =>
              /\ (IsOp("getShowDetailsForProfile")' /\ last'.id = sh) =>
                    last'.val = DetailsView(p, sh)
              /\ IsOp("getShowsForProfile")' => last'.val = ShowsView(p)]_vars

\* The episodes of season n from position pos on, each saved and then
\* associated, in the provider's order.
RECURSIVE ExpectedEpisodes(_, _, _)
ExpectedEpisodes(n, pos, count) ==
    IF pos > count THEN <<>>
    ELSE <<[ev |-> "episode", n |-> n, pos |-> pos], [ev |-> "episodeFav", n |-> n, pos |-> pos]>>
         \o ExpectedEpisodes(n, pos + 1, count)

\* A whole run over the provider's answer, one season after the other:
\* fetch, season row, its association, its episodes, the delay.
RECURSIVE ExpectedLog(_)
ExpectedLog(resp) ==
    IF resp = <<>> THEN <<>>
    ELSE (IF Head(resp).season_number > 0
          THEN <<[ev |-> "fetch", n |-> Head(resp).season_number, pos |-> 0],
                 [ev |-> "season", n |-> Head(resp).season_number, pos |-> 0],
                 [ev |-> "seasonFav", n |-> Head(resp).season_number, pos |-> 0]>>
               \o ExpectedEpisodes(Head(resp).season_number, 1, Head(resp).episodes)
               \o <<[ev |-> "delay", n |-> Head(resp).season_number, pos |-> 0]>>
          ELSE <<>>)
         \o ExpectedLog(Tail(resp))

IsPrefix(a, b) == Len(a) <= Len(b) /\ \A i \in 1..Len(a) : a[i] = b[i]

\* C26: what a loader run has done is at every moment a beginning of the
\* one sequential order: the seasons in the provider's order, for each its
\* fetch, its row, its association, its episodes in the provider's order
\* (row, then association), then the delay, and only then the next fetch.
C26_LoaderSequential ==
    IsPrefix(loader.log, ExpectedLog(loader.resp))

C26_Witness ==
    /\ loader.pc = "done"
    /\ Len(loader.resp) = 2
    /\ loader.resp[1].season_number > loader.resp[2].season_number
    /\ loader.resp[2].season_number > 0
    /\ loader.log = ExpectedLog(loader.resp)
    /\ \E i \in 1..Len(loader.log) : loader.log[i].ev = "episodeFav"

\* C27: a loader run that has been started ends as done or as failed, and
\* a run that has ended takes no step any more; the notification is only
\* reached when every provider season with a positive number is persisted.
C27_LoaderTerminates ==
    /\ (loader.pc \notin {"idle", "done", "failed"}) ~> (loader.pc \in {"done", "failed"})
    /\ [][(loader.pc \in {"done", "failed"} /\ loader'.runs = loader.runs) => loader' = loader]_vars
    /\ [](loader.pc \in {"notifyRead", "notifyEmit"} =>
             \A i \in 1..Len(loader.resp) :
                 loader.resp[i].season_number > 0 =>
                     \E s \in SeasonsOfShow(loader.show) :
                         seasonNumber[s] = loader.resp[i].season_number)

C27_Witness ==
    /\ loader.pc = "failed"
    /\ Len(loader.queue) = 2
    /\ loader.season # 0
    /\ SeasonsOfShow(loader.show) # {}

\* C28: Season.updateWatchStatusByEpisode(p, s) changes at most the season
\* association of (p, s): no episode or show association changes, no
\* association is created or removed, and a second call for the same
\* profile and season right after the first changes nothing.
C28_RecomputeOneDirectional ==
    [][\A p \in Profiles, s \in Seasons :
          SeasonUpdateWatchStatusByEpisode(p, s) =>
              /\ episodeWS' = episodeWS
              /\ showWS' = showWS
              /\ DOMAIN seasonWS' = DOMAIN seasonWS
              /\ \A k \in DOMAIN seasonWS : k # <<p, s>> => seasonWS'[k] = seasonWS[k]
              /\ (IsOp("Season.updateWatchStatusByEpisode") /\ last.p = p /\ last.id = s)
                     => seasonWS' = seasonWS]_vars

\* Two recomputes have run, the last on a season with an association and
\* with episode associations, while another profile has no association of
\* that season.
C28_Witness ==
    /\ IsOp("Season.updateWatchStatusByEpisode")
    /\ nops = 2
    /\ <<last.p, last.id>> \in DOMAIN seasonWS
    /\ JoinedStatuses(last.p, last.id) = {"NOT_WATCHED"}
    /\ seasonWS[<<last.p, last.id>>] = "NOT_WATCHED"
    /\ \A k \in DOMAIN episodeWS : episodeWS[k] = "NOT_WATCHED"
    /\ \E q \in Profiles : <<q, last.id>> \notin DOMAIN seasonWS

\* C29: updateShowWatchStatusForNewContent changes a show-level status only
\* from WATCHED to WATCHING: its check changes nothing, and its write
\* changes the association of the profile at hand only, and only when the
\* stored status is WATCHED at the write, so that a status the user has set
\* since the check is kept.
C29_NewContentKeepsUserStatus ==
    [][\A j \in Jobs :
          /\ NewContentChecks(j) => showWS' = showWS
          /\ NewContentWrites(j) =>
                /\ \A k \in DOMAIN showWS : k # <<jobs[j].p, jobs[j].id>> => showWS'[k] = showWS[k]
                /\ DOMAIN showWS' = DOMAIN showWS
                /\ StatusOf(showWS, <<jobs[j].p, jobs[j].id>>) # "WATCHED" => showWS' = showWS]_vars

\* C30: addMovieToFavorites returns, on either path, the recent/upcoming
\* lists of the store as the call left it, and leaves no list cached for the
\* profile that differs from them.
C30_MovieListsAfterFavorite ==
    [][\A p \in Profiles, m \in Movies :
          AddMovieToFavorites(p, m) =>
              /\ <<p, m>> \in DOMAIN movieWS'
              /\ last'.val = RecentUpcomingMovies(movieWS', p)
              /\ CacheHit(cache', PROFILE_RECENT_UPCOMING_MOVIES(p)) =>
                     cache'[PROFILE_RECENT_UPCOMING_MOVIES(p)] = RecentUpcomingMovies(movieWS', p)]_vars

\* C31: a transaction of Season.updateAllWatchStatuses that was begun has
\* been committed or rolled back when the handler ends and its connection
\* goes back to the pool, also when the season statement matched no row.
C31_TransactionEndedBeforeRelease ==
    [][SeasonUpdateAllEnds => last'.val.end \in {"commit", "rollback"}]_vars

\* C32: a getShowsForProfile call that finds its key in the cache returns
\* the shows of the profile as the store holds them: a producer that read
\* the store before a status update and stores its value after the update's
\* invalidation leaves no value from before the update to later calls.
C32_NoStaleReinstall ==
    [][\A c \in Callers, p \in Profiles :
          (GetOrSetCall(c, p) /\ CacheHit(cache, PROFILE_SHOWS(p))) =>
              calls'[c].val = ShowsView(p)]_vars

\* C33: when a loader run has ended and the profile that started it has no
\* show-level association for the show (it removed the favorite during the
\* run), the profile has no season or episode association under the show.
C33_NoOrphansAfterRemove ==
    (loader.pc \in {"done", "failed"} /\ <<loader.p, loader.show>> \notin DOMAIN showWS) =>
        /\ \A s \in SeasonsOfShow(loader.show) : <<loader.p, s>> \notin DOMAIN seasonWS
        /\ \A e \in EpisodesOfShow(loader.show) : <<loader.p, e>> \notin DOMAIN episodeWS

\* C34: when the loader run of a show has ended without an error and no
\* insert is in flight, every profile with a show-level association for the
\* show has an association for each of its seasons and episodes.
C34_SecondProfileFullyAttached ==
    (loader.pc = "done" /\ pending = {}) =>
        \A q \in Profiles :
            <<q, loader.show>> \in DOMAIN showWS =>
                /\ \A s \in SeasonsOfShow(loader.show) : <<q, s>> \in DOMAIN seasonWS
                /\ \A e \in EpisodesOfShow(loader.show) : <<q, e>> \in DOMAIN episodeWS

\* C35: addShowToFavorites requests for a show that was not in the store
\* when each of them looked for it start at most one loader run between
\* them, and no show has two season rows with the same season number.
C35_OneLoadPerNewShow ==
    /\ loader.runs <= 1
    /\ \A sh \in showRows : \A s, d \in SeasonsOfShow(sh) :
          seasonNumber[s] = seasonNumber[d] => s = d

\* C36: getShowRecommendations and getSimilarShows return to a profile the
\* provider's shows with inFavorites computed from that profile's favorites
\* as they are at the call.
C36_RecommendationsOwnFavorites ==
    [][\A p \in Profiles, sh \in Shows :
          ((GetShowRecommendations(p, sh) \/ GetSimilarShows(p, sh)) /\ sh \in showRows) =>
              last'.val = WithInFavorites(p, ProviderRecommends(sh))]_vars

\* C37: an 'updateShowFavorite' message of a loader run is emitted only to
\* a socket whose token belongs to the account of the profile that started
\* the run.
C37_NotifyOwnAccountOnly ==
    [][emitted' # emitted =>
          tokenOf[emitted'[Len(emitted')].to] = AccountOf(loader.p)]_vars

====
